---- MODULE Spec2Model ----
(***************************************************************************)
(* A model of the OnionPress local forwarding proxy (src/src/onion_proxy.py)*)
(* ProxyCache, the request handler OnionProxyHandler and its fetchers.      *)
(*                                                                          *)
(* The specifications share the variables:                                  *)
(*   SpecCache    ProxyCache.get / put / stats called one at a time         *)
(*   SpecConc     the same calls by several workers, statement by statement *)
(*   Spec         OnionProxyHandler: one request at a time, in phases       *)
(*   SpecResp     GET requests and the headers of their responses           *)
(*   SpecTunnel   CONNECT requests and their tunnels                        *)
(*   SpecRewrite  _rewrite_onion_links applied to a document, and again     *)
(*   SpecPar      two handler threads on one cache                          *)
(*   SpecLock     handler threads: cache calls by statement, network I/O    *)
(*   SpecTtl      _cache_ttl applied to a pair of headers                   *)
(*   SpecUrl      the target URL (the cache key) of two requests            *)
(*   SpecRedirect clearnet requests, redirects of every form               *)
(*   SpecBackup   create_backup and restore_from_backup, step by step       *)
(*                (src/src/backup_manager.py)                               *)
(*   SpecCellar   cellar_poller over one registry entry, pass by pass       *)
(*                (src/src/cellar.py)                                       *)
(***************************************************************************)
EXTENDS Integers, Sequences, FiniteSets, TLC

VARIABLES
    \* ---- ProxyCache (onion_proxy.py:241-296)
    cache,        \* self._cache: OrderedDict, as a sequence, oldest first
    size,         \* self._size
    hits,         \* self.hits
    misses,       \* self.misses
    max_bytes,    \* self.max_bytes
    max_entries,  \* self.max_entries
    now,          \* time.time()
    \* ---- history of the calls made on the cache (SpecCache)
    lru,          \* resident keys, least recently accessed first
    last,         \* the last call on the cache and what it returned
    putKeys,      \* the keys put has been called with
    fresh,        \* how many filler keys have been used
    \* ---- OnionProxyHandler (onion_proxy.py:345-768), one request at a time
    pc,           \* where the handler is: idle, php, direct, relay
    req,          \* the request being handled (or the last one handled)
    hop,          \* _fetch_direct: the upstream request awaiting its response
    sent,         \* what the handler wrote to the client for this request
    tr,           \* what the handler did for this request: gets, puts
                  \* (calls on the cache), php (requests to the forwarder),
                  \* direct (how many direct upstream requests), dhosts
                  \* (the hosts they went to), first (the first of them),
                  \* tcp (connections of do_CONNECT, and whether they were
                  \* made), raised (the fetcher raised), at (the time the
                  \* fetcher returned), resp (what it returned)
    tunnel,       \* do_CONNECT for this request: the two sockets, the chunks
                  \* read from each and written to the other, and why the
                  \* relay loop ended
    marker,       \* the extension-connected file: the time written, or -1
    served,       \* requests handled so far
    \* ---- workers calling into one ProxyCache (SpecConc)
    lock,         \* self._lock: the workers inside a `with self._lock` block
    wk,           \* each worker's position in get / put / stats and its locals
    ref,          \* the object the completed calls give, applied one at a
                  \* time in the order in which they left the lock
    calls,        \* calls begun so far
    \* ---- the rewriters applied to a document (SpecRewrite)
    doc,          \* the document, as it is now
    prev,         \* the document before the last pass
    passes,       \* passes made so far
    \* ---- the handler threads of ThreadingHTTPServer (SpecPar)
    running,      \* the thread whose handler pc .. tunnel above belong to
    parked,       \* the handlers of the other threads, each as a record
    \* ---- a function applied to arguments (SpecTtl)
    args,         \* the arguments
    ret,          \* what it returned, <<>> before the call
    \* ---- backup_manager.py: create_backup / restore_from_backup (SpecBackup)
    bk            \* the call in progress: the function (fn), where it is (pc:
                  \* idle, try, finally; i: the statement of the try block),
                  \* the staging directory and the files in it, the archive
                  \* given (zf), the pending exception (exc) and the
                  \* statement that raised it (at), how the last call ended,
                  \* and the calls made so far
    ,
    \* ---- cellar.py: cellar_poller over one registry entry (SpecCellar)
    cel           \* the registry entry as last written (entry), whether the
                  \* cellar's Tor serves the content address (held), the
                  \* healthchecks that failed in a row (streak), what the
                  \* last pass ran and got (ran), and the passes so far

cvars == <<cache, size, hits, misses, max_bytes, max_entries, now>>
hvars == <<lru, last, putKeys, fresh>>
rvars == <<pc, req, hop, sent, tr, tunnel, marker, served>>
kvars == <<lock, wk, ref, calls>>
wvars == <<doc, prev, passes>>
tvars == <<running, parked>>
xvars == <<args, ret, bk, cel>>
vars == <<cvars, hvars, rvars, kvars, wvars, tvars, xvars>>

----------------------------------------------------------------------------
(* Bounds of the model *)

\* time.time() runs from 0 to MaxNow
MaxNow == 2
\* at most MaxLookups ProxyCache.get calls bump the hit/miss counters
MaxLookups == 2
\* filler keys: put once each, in order, with one fixed response
NFiller == 10
\* requests handled in one behaviour of Spec
MaxRequests == 2
\* chunks read from each socket of a tunnel
MaxChunks == 2
\* time.time() runs from 0 to MaxClock seconds in Spec and SpecResp
MaxClock == 40
\* worker threads calling into the cache
NWorkers == 2
\* calls the workers begin in one behaviour of SpecConc
MaxCalls == 3
\* tokens in a document of SpecRewrite
MaxDoc == 5
\* passes of a rewriter over one document
MaxPasses == 2
\* calls of create_backup / restore_from_backup in one behaviour
MaxBackups == 2
\* polling passes of cellar_poller in one behaviour
MaxPolls == 8

\* what ProxyCache.get returns for None; a hit is <<status, headers, body>>
Absent == <<>>

----------------------------------------------------------------------------
(* Sequences *)

Range(s) == {s[i] : i \in 1..Len(s)}

RECURSIVE SumLen(_)
SumLen(c) == IF c = <<>> THEN 0 ELSE Len(Head(c).body) + SumLen(Tail(c))

Keys(c) == [i \in 1..Len(c) |-> c[i].url]

Without(s, x) == SelectSeq(s, LAMBDA y : y # x)

IsSuffix(s, t) ==
    /\ Len(s) <= Len(t)
    /\ s = SubSeq(t, Len(t) - Len(s) + 1, Len(t))

----------------------------------------------------------------------------
(* ProxyCache: the value of the object is the record                       *)
(*   [cache, size, hits, misses, max_bytes, max_entries]                   *)

\* ProxyCache.__init__
ProxyCache_init(mb, me) ==
    [cache |-> <<>>, size |-> 0, hits |-> 0, misses |-> 0,
     max_bytes |-> mb, max_entries |-> me]

\* self._cache.get(url): <<the entry>>, or <<>> for None
Lookup(c, url) == SelectSeq(c, LAMBDA e : e.url = url)

\* ProxyCache._remove: pop the key, and take its body off the byte total
ProxyCache_remove_keepsize(C, url) ==
    [C EXCEPT !.cache = SelectSeq(C.cache, LAMBDA e : e.url # url)]
ProxyCache_remove(C, url) ==
    LET entry == Lookup(C.cache, url) IN
    IF entry = <<>> THEN C
    ELSE [C EXCEPT !.cache = SelectSeq(C.cache, LAMBDA e : e.url # url),
                   !.size = C.size - Len(entry[1].body)]

\* get's test `time.time() >= entry[3]`
Expired_gt(t, entry) == t > entry.exp
Expired(t, entry) == t >= entry.exp

\* self._cache.move_to_end(url)
MoveToEnd_none(c, url) == c
MoveToEnd(c, url) ==
    SelectSeq(c, LAMBDA e : e.url # url) \o SelectSeq(c, LAMBDA e : e.url = url)

\* ProxyCache.get: <<the object after the call, what the call returns>>
ProxyCache_get(C, url, t) ==
    LET entry == Lookup(C.cache, url) IN
    IF entry = <<>>
    THEN <<[C EXCEPT !.misses = C.misses + 1], Absent>>
    ELSE IF Expired(t, entry[1])
    THEN <<[ProxyCache_remove(C, url) EXCEPT !.misses = C.misses + 1], Absent>>
    ELSE <<[C EXCEPT !.cache = MoveToEnd(C.cache, url), !.hits = C.hits + 1],
           <<entry[1].status, entry[1].headers, entry[1].body>>>>

\* put's test `ttl <= 0`
NoTtl_zero(ttl) == ttl = 0
NoTtl(ttl) == ttl <= 0

\* put's test `size > self.max_bytes // 10`
TooLarge_never(sz, mb) == FALSE
TooLarge_ge(sz, mb) == sz >= mb \div 10
TooLarge(sz, mb) == sz > mb \div 10

\* put's loop condition
MustEvict_gt(C, sz) ==
    C.size + sz > C.max_bytes \/ Len(C.cache) > C.max_entries
MustEvict(C, sz) ==
    C.size + sz > C.max_bytes \/ Len(C.cache) >= C.max_entries

\* put's loop: drop the first key while a ceiling would be passed
RECURSIVE Evict(_, _)
Evict(C, sz) ==
    IF MustEvict(C, sz) /\ C.cache # <<>>
    THEN Evict(ProxyCache_remove(C, Head(C.cache).url), sz)
    ELSE C

\* ProxyCache.put: the object after the call
ProxyCache_put(C, url, status, headers, body, ttl, t) ==
    IF NoTtl(ttl) THEN C
    ELSE IF TooLarge(Len(body), C.max_bytes) THEN C
    ELSE LET C1 == ProxyCache_remove(C, url)
             C2 == Evict(C1, Len(body))
         IN [C2 EXCEPT
               !.cache = Append(C2.cache,
                                [url |-> url, status |-> status,
                                 headers |-> headers, body |-> body,
                                 exp |-> t + ttl]),
               !.size = C2.size + Len(body)]

\* ProxyCache.stats, less the rounding of size_mb
ProxyCache_stats_size(C) ==
    [entries |-> C.size, size |-> C.size,
     hits |-> C.hits, misses |-> C.misses]
ProxyCache_stats(C) ==
    [entries |-> Len(C.cache), size |-> C.size,
     hits |-> C.hits, misses |-> C.misses]

\* the object the variables hold
Self == [cache |-> cache, size |-> size, hits |-> hits, misses |-> misses,
         max_bytes |-> max_bytes, max_entries |-> max_entries]

\* assign the object C to the (primed) variables
Becomes(C) ==
    /\ cache' = C.cache
    /\ size' = C.size
    /\ hits' = C.hits
    /\ misses' = C.misses
    /\ UNCHANGED <<max_bytes, max_entries>>

----------------------------------------------------------------------------
(* Text.  A host name is a sequence of characters; a URL is the sequence of *)
(* its parts; a body is a sequence of tokens, and len() counts them        *)

\* str.lower(), on the letters the hosts of the model use
LowerChar(ch) ==
    CASE ch = "A" -> "a" [] ch = "O" -> "o" [] ch = "N" -> "n"
      [] ch = "I" -> "i" [] OTHER -> ch
ToLower(str) == [i \in 1..Len(str) |-> LowerChar(str[i])]

\* str.endswith(suffix)
EndsWith(str, suffix) ==
    /\ Len(str) >= Len(suffix)
    /\ SubSeq(str, Len(str) - Len(suffix) + 1, Len(str)) = suffix

\* the literal '.onion' of do_CONNECT and _handle_request
DotOnion == <<".", "o", "n", "i", "o", "n">>

\* urlparse(...).hostname: the host of the URL, lower-cased; None as <<>>
UrlHostname(host) == ToLower(host)

\* a port: -1 stands for None
NoPort == -1
Truthy(port) == port # NoPort /\ port # 0
PortStr(port) ==
    CASE port = 0 -> "0" [] port = 80 -> "80" [] port = 443 -> "443"
      [] port = 8080 -> "8080" [] OTHER -> "?"

\* _handle_request: target_host of an absolute URI (parsed.hostname or '',
\* lower-cased) and of the /proxy/ form (parts[0].lower())
TargetHost_raw(r) == r.host
TargetHost(r) ==
    IF r.kind = "abs" THEN ToLower(UrlHostname(r.host)) ELSE ToLower(r.host)

\* t occurs in s
Contains(s, t) ==
    \E i \in 0..(Len(s) - Len(t)) : SubSeq(s, i + 1, i + Len(t)) = t

\* _handle_request: is_onion = target_host.endswith('.onion')
IsOnion_in(target_host) == Contains(target_host, DotOnion)
IsOnion(target_host) == EndsWith(target_host, DotOnion)

\* do_CONNECT: host.endswith('.onion'), on the host as the client wrote it
ConnectIsOnion(host) == EndsWith(host, DotOnion)

\* _handle_request: target_port
TargetPort(r) == IF r.kind = "abs" THEN r.port ELSE NoPort

\* _handle_request: the target URL, which is also the cache key
TargetUrl(target_host, target_port, target_path) ==
    IF Truthy(target_port) /\ target_port # 80
    THEN <<"http://">> \o target_host \o <<":", PortStr(target_port)>>
         \o <<target_path>>
    ELSE <<"http://">> \o target_host \o <<target_path>>

\* the content types of the model, and `t in ct` for the substrings the code
\* looks for
CtHtml == "text/html; charset=utf-8"
CtHtmlUpper == "Text/HTML"
CtJs == "application/javascript"
CtDefault == "application/octet-stream"
CtContains(ct, t) ==
    \/ ct = CtHtml /\ t = "text/html"
    \/ ct = CtJs /\ t = "application/javascript"
CtLower(ct) == IF ct = CtHtmlUpper THEN "text/html" ELSE ct
\* the strings _cache_ttl looks for that the (lower-case) content type holds
CtParts(ct) ==
    CASE ct \in {CtHtml, "text/html"} -> {"text/html"}
      [] ct = CtJs -> {"application/javascript"}
      [] ct = "text/javascript" -> {"text/javascript"}
      [] ct = "text/css" -> {"text/css"}
      [] ct = "application/wasm" -> {"application/wasm"}
      [] ct = "image/png" -> {"image/"}
      [] ct = "image/svg+xml" -> {"image/", "svg"}
      [] ct = "application/svg+xml" -> {"svg"}
      [] ct = "font/woff2" -> {"font/", "woff"}
      [] ct = "application/font-woff" -> {"woff"}
      [] ct = "application/json" -> {"json"}
      [] OTHER -> {}
CtLowerContains(ct, t) == t \in CtParts(CtLower(ct))

\* a cache-control header: the sequence of its directives, each
\* [name, num], num the integer after `max-age=` as <<n>>, <<>> when the
\* text there is no integer
CcNone == <<>>
CcHas(cc, word) == \E i \in 1..Len(cc) : cc[i].name = word

\* _cache_ttl
CacheTtl_flat(content_type, cache_control) ==
    IF CtLowerContains(content_type, "json") THEN 60 ELSE 120
CacheTtl_table(content_type, cache_control) ==
    IF CtLowerContains(content_type, "text/html") THEN 30 ELSE 120
CacheTtl_nocap(content_type, cache_control) ==
    LET ma == SelectSeq(cache_control, LAMBDA dv : dv.name = "max-age")
    IN IF cache_control # <<>> /\ (CcHas(cache_control, "no-store")
                                   \/ CcHas(cache_control, "private"))
       THEN 0
       ELSE IF ma # <<>> /\ ma[1].num # <<>> THEN ma[1].num[1]
       ELSE CacheTtl_table(content_type, cache_control)
CacheTtl(content_type, cache_control) ==
    LET ma == SelectSeq(cache_control, LAMBDA dv : dv.name = "max-age")
        table ==
            IF \E t \in {"image/", "font/", "woff", "application/javascript",
                          "text/javascript", "text/css", "application/wasm"} :
                   CtLowerContains(content_type, t)
            THEN 600
            ELSE IF CtLowerContains(content_type, "svg") THEN 600
            ELSE IF CtLowerContains(content_type, "text/html") THEN 30
            ELSE IF CtLowerContains(content_type, "json") THEN 60
            ELSE 120
    IN IF cache_control # <<>> /\ (CcHas(cache_control, "no-store")
                                   \/ CcHas(cache_control, "private"))
       THEN 0
       ELSE IF ma # <<>> /\ ma[1].num # <<>>
       THEN (IF ma[1].num[1] < 3600 THEN ma[1].num[1] ELSE 3600)
       ELSE table

\* a body is a sequence of tokens [k, h, p]:
\*   k = "scheme"  the text p://, p being http or https
\*   k = "host"    the name h of an onion host, as HTTPS_ONION_RE and
\*                 ONION_URL_RE match it (the label "a" stands for a label of
\*                 16 to 56 letters and digits)
\*   k = "path"    the text p, which starts with / and has no white space,
\*                 quote, < or >
\*   k = "proxy"   the text /proxy/
\*   k = "css"     the text url(
\*   k = "attr"    the text href=" (an attribute name, =, and a quote)
\*   k = "quote"   the text "
\*   k = "space"   a blank
Tok(k, h, p) == [k |-> k, h |-> h, p |-> p]
ProxyTok == Tok("proxy", <<>>, "/proxy/")
HostTok(h) == Tok("host", h, "")

\* the tokens that have only characters of the class [^\s"'<>]
PathChars == {"scheme", "host", "path", "proxy", "css"}
\* the tokens without a quote
NoQuote == {"scheme", "host", "path", "proxy", "css", "space"}
\* the token starts with /
StartsWithSlash(tok) == tok.k \in {"path", "proxy"}

\* how many leading tokens of text are of the kinds in class
RECURSIVE Run(_, _)
Run(text, class) ==
    IF text # <<>> /\ Head(text).k \in class
    THEN 1 + Run(Tail(text), class) ELSE 0

Drop(text, n) == SubSeq(text, n + 1, Len(text))
Take(text, n) == SubSeq(text, 1, n)

\* _downgrade_https_onion: HTTPS_ONION_RE.sub(r'http://\1', text)
RECURSIVE DowngradeHttpsOnion(_)
DowngradeHttpsOnion(body) ==
    IF body = <<>> THEN <<>>
    ELSE IF Len(body) >= 2 /\ body[1].k = "scheme" /\ body[1].p = "https"
            /\ body[2].k = "host"
    THEN <<Tok("scheme", <<>>, "http"), body[2]>>
         \o DowngradeHttpsOnion(Drop(body, 2))
    ELSE <<Head(body)>> \o DowngradeHttpsOnion(Tail(body))

\* _rewrite_onion_links: ONION_URL_RE.sub(replace_abs_onion, text).  A match
\* is a scheme, a host and, when a / follows, every character up to the
\* next white space, quote, < or >; it becomes /proxy/{host}{path}
RECURSIVE ReplaceAbsOnion(_)
ReplaceAbsOnion(text) ==
    IF text = <<>> THEN <<>>
    ELSE IF Len(text) >= 2 /\ text[1].k = "scheme" /\ text[2].k = "host"
    THEN LET rest == Drop(text, 2)
             n == IF rest # <<>> /\ StartsWithSlash(rest[1])
                  THEN Run(rest, PathChars) ELSE 0
         IN <<ProxyTok, text[2]>> \o Take(rest, n)
            \o ReplaceAbsOnion(Drop(rest, n))
    ELSE <<Head(text)>> \o ReplaceAbsOnion(Tail(text))

\* _rewrite_onion_links: ROOT_REL_RE.sub(rf'\1{proxy_prefix}\2', text).  A
\* match is an attribute and a value that starts with / but not with
\* /proxy/; it runs up to the next quote
RECURSIVE PrefixRootRel(_, _)
PrefixRootRel(text, onion_host) ==
    IF text = <<>> THEN <<>>
    ELSE IF Len(text) >= 2 /\ text[1].k = "attr" /\ text[2].k = "path"
    THEN LET rest == Drop(text, 2)
             n == Run(rest, NoQuote)
             \* an attribute inside the run has lost its name to the match
             m == IF n < Len(rest) /\ rest[n + 1].k = "attr" THEN n + 1 ELSE n
         IN <<text[1], ProxyTok, HostTok(onion_host), text[2]>> \o Take(rest, m)
            \o PrefixRootRel(Drop(rest, m), onion_host)
    ELSE <<Head(text)>> \o PrefixRootRel(Tail(text), onion_host)

\* _rewrite_onion_links: CSS_URL_RE.sub(rf'\1{proxy_prefix}\2', text).  A
\* match is url( and a value that starts with / but not with /proxy/; it
\* runs up to the next white space, quote or )
RECURSIVE PrefixCssUrl(_, _)
PrefixCssUrl(text, onion_host) ==
    IF text = <<>> THEN <<>>
    ELSE IF Len(text) >= 2 /\ text[1].k = "css" /\ text[2].k = "path"
    THEN LET rest == Drop(text, 2)
             n == Run(rest, PathChars)
         IN <<text[1], ProxyTok, HostTok(onion_host), text[2]>> \o Take(rest, n)
            \o PrefixCssUrl(Drop(rest, n), onion_host)
    ELSE <<Head(text)>> \o PrefixCssUrl(Tail(text), onion_host)

\* _rewrite_onion_links
RewriteOnionLinks(body, onion_host) ==
    PrefixCssUrl(PrefixRootRel(ReplaceAbsOnion(body), onion_host), onion_host)

\* no document
InitText ==
    /\ doc = <<>>
    /\ prev = <<>>
    /\ passes = 0

\* _send_response: the upstream headers that are forwarded
ForwardHeaders_all(headers) == headers
ForwardHeaders(headers) == [ct |-> headers.ct, cc |-> headers.cc]

----------------------------------------------------------------------------
(* OnionProxyHandler: requests, upstream responses, what the handler wrote  *)

\* host names as clients write them
OnionLc == <<"a", ".", "o", "n", "i", "o", "n">>
OnionUc == <<"A", ".", "O", "N", "I", "O", "N">>
Clear == <<"e", ".", "c", "o">>
ClearTricky == <<"a", ".", "o", "n", "i", "o", "n", ".", "c", "o">>

\* a request: method, the shape of its target (kind), and the parts of the
\* target; clen is the Content-Length header, browser the
\* X-OnionPress-Browser header
\*   abs        http://host[:port]path      proxy   /proxy/host/path
\*   status     /status                     setup   /setup...
\*   other      any other path              authority  host:port (CONNECT)
\*   badauth    a CONNECT target without a port number
Request(method, kind, host, port, path, clen, browser) ==
    [method |-> method, kind |-> kind, host |-> host, port |-> port,
     path |-> path, clen |-> clen, browser |-> browser]

NoReq == Request("", "", <<>>, NoPort, "", 0, FALSE)

\* an upstream response: status, headers (content-type, cache-control,
\* location, each "" or <<>> when absent; other: a header off the allow-list)
\* and body.  A location is <<>> or <<[scheme, host, port, path]>>
Headers(ct, cc, loc) == [ct |-> ct, cc |-> cc, loc |-> loc]
NoHeaders == [ct |-> "", cc |-> <<>>]
Response(status, headers, body) ==
    [status |-> status, headers |-> headers, body |-> body]
Location(scheme, host, port, path) ==
    <<[scheme |-> scheme, host |-> host, port |-> port, path |-> path]>>

NoHop == [method |-> "", host |-> <<>>, port |-> NoPort, path |-> ""]
NoSent == [kind |-> "none", code |-> 0, headers |-> NoHeaders, body |-> <<>>,
           stats |-> <<>>, clen |-> -1, acao |-> ""]
NoTr == [gets |-> 0, puts |-> 0, php |-> <<>>, direct |-> 0, dhosts |-> {},
         first |-> NoHop, tcp |-> <<>>, raised |-> FALSE, at |-> 0,
         resp |-> <<>>]
NoTunnel == [remote |-> "none", client |-> "open",
             from_client |-> <<>>, to_remote |-> <<>>,
             from_remote |-> <<>>, to_client |-> <<>>, cause |-> ""]

InitHandler ==
    /\ pc = "idle"
    /\ req = NoReq
    /\ hop = NoHop
    /\ sent = NoSent
    /\ tr = NoTr
    /\ tunnel = NoTunnel
    /\ marker = -1
    /\ served = 0

\* ThreadingHTTPServer: a handler per request, each in a thread of its own.
\* The handler of the running thread is in pc, req, hop, sent, tr and tunnel;
\* those of the others are kept in parked
Threads == {1, 2}
NoHandler == [pc |-> "idle", req |-> NoReq, hop |-> NoHop, sent |-> NoSent,
              tr |-> NoTr, tunnel |-> NoTunnel]
InitThreads ==
    /\ running = 1
    /\ parked = [w \in Threads |-> NoHandler]

\* no function call of SpecTtl
InitCall ==
    /\ args = <<>>
    /\ ret = <<>>

\* backup_manager.py: no call yet
NoBackup == [fn |-> "", pc |-> "idle", i |-> 0, staging |-> "none",
             files |-> {}, exc |-> FALSE, at |-> "", ended |-> "",
             calls |-> 0, zf |-> {}]
InitBackup == bk = NoBackup

\* cellar.py: consecutive failures before takeover
FAIL_THRESHOLD == 3
\* what a polling pass ran: nothing yet ("" is a command that was not run)
NoRan == [hc |-> "", unlocked |-> "", content |-> "", takeover |-> "",
          release |-> ""]
\* a registered entry no pass has touched: entry.get("fail_count", 0) and
\* entry.get("takeover_active", False) give the defaults, and the cellar
\* does not serve the content address
InitCellar ==
    cel = [entry |-> [fail_count |-> 0, takeover_active |-> FALSE,
                      status |-> ""],
           held |-> FALSE, streak |-> 0, ran |-> NoRan, polls |-> 0]

\* send_error(code, ...)
ErrorSent(code) == [NoSent EXCEPT !.kind = "error", !.code = code]

\* _send_response: status line, the allow-listed headers, Content-Length
\* (clen), Access-Control-Allow-Origin (acao), the body unless head_only
ResponseSent(kind, status, headers, body, head_only) ==
    [NoSent EXCEPT !.kind = kind, !.code = status,
                   !.headers = ForwardHeaders(headers),
                   !.clen = Len(body),
                   !.acao = "*",
                   !.body = IF head_only THEN <<>> ELSE body]

\* the handler returns: the request is over
Return(s, t) ==
    /\ pc' = "idle"
    /\ sent' = s
    /\ tr' = t
    /\ hop' = NoHop
    /\ served' = served + 1

\* _handle_request, the fields derived from the request
IsForwardProxy(r) == r.kind = "abs"
TargetPath(r) == r.path
ReqUrl(r) == TargetUrl(TargetHost(r), TargetPort(r), TargetPath(r))
HeadOnly(r) == r.method = "HEAD"
\* post_data is set when a POST declares a Content-Length > 0
HasPostData(r) == r.method = "POST" /\ r.clen > 0

\* _handle_request: the cache is looked up and filled when
\* self.command == 'GET' (self.server.cache is always there)
UsesCache_notpost(r) == r.method # "POST"
UsesCache(r) == r.method = "GET"

\* _fetch_via_php and _fetch_direct: the method of the upstream request
FetchMethod(r) ==
    IF HeadOnly(r) THEN "HEAD" ELSE IF HasPostData(r) THEN "POST" ELSE "GET"

\* _handle_status
HandleStatus(r) ==
    /\ marker' = IF r.browser THEN now ELSE marker
    /\ Return([NoSent EXCEPT !.kind = "status", !.code = 200,
                             !.headers = [ct |-> "application/json", cc |-> <<>>],
                             !.stats = <<ProxyCache_stats(Self)>>],
              NoTr)
    /\ tunnel' = NoTunnel
    /\ UNCHANGED cvars

\* _handle_request: `if cached:`, on what cache.get returned
CacheHit_body(got) == got # Absent /\ got[3] # <<>>
CacheHit(got) == got # Absent

\* _handle_request: the path starts with http:// or with /proxy/
Accepted_any(r) == TRUE
Accepted(r) == r.kind \in {"abs", "proxy"}

\* _handle_request up to the dispatch to a fetcher
HandleRequest(r) ==
    IF r.kind = "status" THEN HandleStatus(r)
    ELSE IF r.kind = "setup"
    THEN /\ Return([NoSent EXCEPT !.kind = "setup"], NoTr)
         /\ tunnel' = NoTunnel
         /\ UNCHANGED <<cvars, marker>>
    ELSE IF ~Accepted(r)
    THEN /\ Return(ErrorSent(404), NoTr)
         /\ tunnel' = NoTunnel
         /\ UNCHANGED <<cvars, marker>>
    ELSE IF ~IsForwardProxy(r) /\ ~IsOnion(TargetHost(r))
    THEN /\ Return(ErrorSent(400), NoTr)
         /\ tunnel' = NoTunnel
         /\ UNCHANGED <<cvars, marker>>
    ELSE
    LET got == IF UsesCache(r) THEN ProxyCache_get(Self, ReqUrl(r), now)
               ELSE <<Self, Absent>>
        t1 == [NoTr EXCEPT !.gets = IF UsesCache(r) THEN 1 ELSE 0]
    IN
    /\ Becomes(got[1])
    /\ tunnel' = NoTunnel
    /\ UNCHANGED <<now, marker>>
    /\ IF CacheHit(got[2])
       THEN Return(ResponseSent("cached", got[2][1], got[2][2], got[2][3],
                                HeadOnly(r)), t1)
       ELSE IF IsOnion(TargetHost(r))
       THEN /\ pc' = "php"
            /\ tr' = [t1 EXCEPT !.php = <<[method |-> FetchMethod(r),
                                          url |-> ReqUrl(r)]>>]
            /\ sent' = NoSent
            /\ UNCHANGED <<hop, served>>
       ELSE /\ pc' = "direct"
            /\ hop' = [method |-> FetchMethod(r), host |-> TargetHost(r),
                       port |-> IF Truthy(TargetPort(r)) THEN TargetPort(r)
                                ELSE 80,
                       path |-> TargetPath(r)]
            /\ tr' = [t1 EXCEPT !.direct = 1, !.dhosts = {hop'.host},
                                !.first = hop']
            /\ sent' = NoSent
            /\ UNCHANGED served

\* do_CONNECT: socket.create_connection raised
ConnectFailed_never(ok) == FALSE
ConnectFailed(ok) == ~ok

\* do_CONNECT up to the relay loop; ok: socket.create_connection succeeds
DoConnect_lookup(r, ok) ==
    /\ Becomes(ProxyCache_get(Self, TargetUrl(r.host, r.port, "/"), now)[1])
    /\ UNCHANGED <<now, marker>>
    /\ Return(ErrorSent(502), NoTr)
    /\ tunnel' = NoTunnel
DoConnect(r, ok) ==
    LET attempt == <<[host |-> r.host, port |-> r.port, ok |-> ok]>> IN
    /\ UNCHANGED <<cvars, marker>>
    /\ IF r.kind # "authority"
       THEN Return(ErrorSent(400), NoTr) /\ tunnel' = NoTunnel
       ELSE IF ConnectIsOnion(r.host)
       THEN Return(ErrorSent(502), NoTr) /\ tunnel' = NoTunnel
       ELSE IF ConnectFailed(ok)
       THEN /\ Return(ErrorSent(502), [NoTr EXCEPT !.tcp = attempt])
            /\ tunnel' = NoTunnel
       ELSE /\ pc' = "relay"
            /\ sent' = [NoSent EXCEPT !.kind = "established", !.code = 200]
            /\ tr' = [NoTr EXCEPT !.tcp = attempt]
            /\ tunnel' = [NoTunnel EXCEPT !.remote = "open"]
            /\ UNCHANGED <<hop, served>>

\* do_GET / do_POST / do_HEAD / do_CONNECT: a request arrives
Receive(r, ok) ==
    /\ pc = "idle"
    /\ served < MaxRequests
    /\ req' = r
    /\ UNCHANGED hvars
    /\ IF r.method = "CONNECT" THEN DoConnect(r, ok)
       ELSE ok /\ HandleRequest(r)

\* _handle_request: 200 <= status < 400
CacheableStatus_any(status) == TRUE
CacheableStatus(status) == 200 <= status /\ status < 400

\* _handle_request after the fetch: body, rewritten where the code rewrites
RespBody(r, resp) ==
    LET resp_content_type ==
            IF resp.headers.ct = "" THEN CtDefault ELSE resp.headers.ct
    IN IF IsOnion(TargetHost(r))
          /\ CtContains(resp_content_type, "text/html")
          /\ resp.body # <<>>
       THEN (IF IsForwardProxy(r) THEN DowngradeHttpsOnion(resp.body)
             ELSE RewriteOnionLinks(resp.body, TargetHost(r)))
       ELSE resp.body

\* _handle_request after the fetch: rewrite, cache, respond
Finish(r, resp) ==
    LET resp_content_type ==
            IF resp.headers.ct = "" THEN CtDefault ELSE resp.headers.ct
        body == RespBody(r, resp)
        cacheable == UsesCache(r) /\ CacheableStatus(resp.status)
    IN
    /\ Becomes(IF cacheable
               THEN ProxyCache_put(Self, ReqUrl(r), resp.status, resp.headers,
                                   body,
                                   CacheTtl(resp_content_type, resp.headers.cc),
                                   now)
               ELSE Self)
    /\ Return(ResponseSent("proxied", resp.status, resp.headers, body,
                           HeadOnly(r)),
              [tr EXCEPT !.puts = IF cacheable THEN 1 ELSE 0, !.at = now,
                         !.resp = <<resp>>])
    /\ UNCHANGED <<now, req, tunnel, marker, hvars>>

\* the except clause of _handle_request: send_error(502, ...)
FetchFailed_retry ==
    /\ ~tr.raised
    /\ tr' = [tr EXCEPT !.raised = TRUE,
                        !.php = IF pc = "php" THEN tr.php \o tr.php ELSE tr.php,
                        !.direct = IF pc = "direct" THEN tr.direct + 1
                                   ELSE tr.direct]
    /\ UNCHANGED <<cvars, hvars, pc, req, hop, sent, tunnel, marker, served>>
FetchFailed_purge ==
    /\ Return(ErrorSent(502), [tr EXCEPT !.raised = TRUE])
    /\ Becomes(ProxyCache_init(max_bytes, max_entries))
    /\ UNCHANGED <<now, req, tunnel, marker, hvars>>
FetchFailed ==
    /\ Return(ErrorSent(502), [tr EXCEPT !.raised = TRUE])
    /\ UNCHANGED <<cvars, req, tunnel, marker, hvars>>

\* _fetch_via_php: the forwarder answers, or the exchange raises
PhpResponds(resps) ==
    /\ pc = "php"
    /\ \/ FetchFailed
       \/ \E resp \in resps : Finish(req, resp)

\* _fetch_direct: does the loop follow this response?
Follows_always(resp, redirects) ==
    /\ resp.status \in {301, 302, 303, 307, 308}
    /\ resp.headers.loc # <<>>
    /\ resp.headers.loc[1].scheme # "https"
Follows(resp, redirects) ==
    /\ resp.status \in {301, 302, 303, 307, 308}
    /\ redirects < 5
    /\ resp.headers.loc # <<>>
    /\ resp.headers.loc[1].scheme # "https"

\* _fetch_direct: the next request of the redirect loop; host is the host the
\* fetch was called with
RedirectHop(loc, host) ==
    [method |-> "GET",
     host |-> IF UrlHostname(loc.host) # <<>> THEN UrlHostname(loc.host) ELSE host,
     port |-> IF Truthy(loc.port) THEN loc.port ELSE 80,
     path |-> IF loc.path # "" THEN loc.path ELSE "/"]

\* _fetch_direct: the upstream answers the request in hop, or it raises
DirectResponds(resps) ==
    /\ pc = "direct"
    /\ \/ FetchFailed
       \/ \E resp \in resps :
            IF Follows(resp, tr.direct - 1)
            THEN /\ hop' = RedirectHop(resp.headers.loc[1], TargetHost(req))
                 /\ tr' = [tr EXCEPT !.direct = tr.direct + 1,
                                     !.dhosts = tr.dhosts \cup {hop'.host},
                                     !.resp = <<resp>>]
                 /\ UNCHANGED <<cvars, hvars, pc, req, sent, tunnel, marker,
                                served>>
            ELSE Finish(req, resp)

\* do_CONNECT, the relay loop: what is written for the data read (sendall
\* takes the bytes recv returned)
Relayed_doubled(data) == <<data, data>>
Relayed(data) == <<data>>

\* do_CONNECT, the relay loop: the socket that the data read from sock is
\* written to
Peer(sock) == IF sock = "client" THEN "remote" ELSE "client"

\* the chunks a socket may deliver
Chunks == {"x", "y"}

\* do_CONNECT, the relay loop: select says sock is readable, recv returns
\* data, sendall writes it to the other socket
RelayChunk(chunks) ==
    /\ pc = "relay"
    /\ \E sock \in {"client", "remote"}, data \in chunks :
         IF sock = "client"
         THEN /\ Len(tunnel.from_client) < MaxChunks
              /\ tunnel' = [tunnel EXCEPT
                              !.from_client = Append(@, data),
                              !.to_remote = IF Peer(sock) = "remote"
                                            THEN @ \o Relayed(data) ELSE @,
                              !.to_client = IF Peer(sock) = "client"
                                            THEN @ \o Relayed(data) ELSE @]
         ELSE /\ Len(tunnel.from_remote) < MaxChunks
              /\ tunnel' = [tunnel EXCEPT
                              !.from_remote = Append(@, data),
                              !.to_remote = IF Peer(sock) = "remote"
                                            THEN @ \o Relayed(data) ELSE @,
                              !.to_client = IF Peer(sock) = "client"
                                            THEN @ \o Relayed(data) ELSE @]
    /\ UNCHANGED <<cvars, hvars, pc, req, hop, sent, tr, marker, served>>

\* why the relay loop ends: recv returned no data (end of stream on either
\* socket), select reported an errored socket, select timed out after 60
\* seconds with nothing readable, or select, recv or sendall raised
Causes == {"eof_client", "eof_remote", "errored", "timeout", "exception"}

\* do_CONNECT: the remote socket after the loop (remote.close() at the end of
\* stream, and in the finally clause)
RemoteAfterRelay_eof(cause) ==
    IF cause \in {"eof_client", "eof_remote"} THEN "closed" ELSE "open"
RemoteAfterRelay(cause) == "closed"

\* do_CONNECT, the end of the relay loop.  A sendall that raises has read its
\* chunk and not written it.  The handler returns, and the server (one
\* request per connection) closes the client's connection
RelayEnd(causes, chunks) ==
    /\ pc = "relay"
    /\ \E cause \in causes :
         \/ tunnel' = [tunnel EXCEPT !.remote = RemoteAfterRelay(cause),
                                     !.client = "closed", !.cause = cause]
         \/ /\ cause = "exception"
            /\ \E sock \in {"client", "remote"}, data \in chunks :
                 IF sock = "client"
                 THEN /\ Len(tunnel.from_client) < MaxChunks
                      /\ tunnel' = [tunnel EXCEPT
                                      !.from_client = Append(@, data),
                                      !.remote = RemoteAfterRelay(cause),
                                      !.client = "closed", !.cause = "sendall"]
                 ELSE /\ Len(tunnel.from_remote) < MaxChunks
                      /\ tunnel' = [tunnel EXCEPT
                                      !.from_remote = Append(@, data),
                                      !.remote = RemoteAfterRelay(cause),
                                      !.client = "closed", !.cause = "sendall"]
    /\ Return(sent, tr)
    /\ UNCHANGED <<cvars, hvars, req, marker>>

\* time passes
Clock(steps) ==
    /\ \E d \in steps : now + d <= MaxClock /\ now' = now + d
    /\ UNCHANGED <<cache, size, hits, misses, max_bytes, max_entries, hvars,
                   rvars>>

----------------------------------------------------------------------------
(* The workers of SpecConc and their locals *)

Workers == 1..NWorkers

\* a worker's position (pc: idle, the call's wait for the lock, or the source
\* line it is about to run) and its locals: the call and its arguments, get's
\* entry, _remove's url (key) and entry (popped), the value read for a +=
\* (tmp), the time.time() the call read (t), where _remove returns to (back),
\* whether the call began while the lock was held (conc), what the call
\* returned (ret) and what the same call returns on ref (want)
NoLocals == [pc |-> "idle", op |-> "", url |-> 0, arg |-> <<>>,
             entry |-> <<>>, key |-> 0, popped |-> <<>>, tmp |-> 0, t |-> 0,
             back |-> "", conc |-> FALSE, ret |-> <<>>, want |-> <<>>]

InitWorkers ==
    /\ lock = {}
    /\ wk = [w \in Workers |-> NoLocals]
    /\ ref = Self
    /\ calls = 0

----------------------------------------------------------------------------
(* SpecCache: get, put, stats and the clock, one call at a time *)

\* ProxyCache(max_bytes, max_entries): a configuration whose entry ceiling
\* binds, and one whose byte ceiling binds (a body is at most a tenth of
\* max_bytes, so that takes more than ten resident entries)
Configs == {<<10, 2>>, <<10, 12>>}
Wide == max_entries > 2

\* the keys put and looked up with every argument; the filler keys are
\* 101, 102, ...
HotKeys == IF Wide THEN {1} ELSE {1, 2, 3}

\* (status, headers, body, ttl) of the puts: two that are stored, one with
\* ttl 0, one with a negative ttl, one whose body is larger than a tenth of
\* max_bytes
PutArgs == {<<200, "hA", <<7>>, 2>>, <<301, "hB", <<>>, 2>>,
            <<200, "hA", <<7>>, 0>>, <<200, "hC", <<7>>, -1>>,
            <<200, "hA", <<7, 8>>, 2>>}
FillerArgs == <<200, "hA", <<9>>, 2>>

\* op: the call; after: the call before a get; at: the clock at the call;
\* removed: how many keys other than url the call took out of the cache (a
\* get: how many keys in all)
NoCall == [op |-> "init", after |-> "", url |-> 0, status |-> 0, headers |-> "",
           body |-> <<>>, ttl |-> 0, at |-> 0, ret |-> <<>>, removed |-> 0]

\* a put that the data model says is stored: ttl > 0 and the body at most a
\* tenth of the byte ceiling
Stores(body, ttl) == ttl > 0 /\ Len(body) <= max_bytes \div 10

\* the key k becomes the most recently accessed
Touch(s, k) == Without(s, k) \o <<k>>

InitCacheVars(cfg) ==
    /\ cache = ProxyCache_init(cfg[1], cfg[2]).cache
    /\ size = ProxyCache_init(cfg[1], cfg[2]).size
    /\ hits = ProxyCache_init(cfg[1], cfg[2]).hits
    /\ misses = ProxyCache_init(cfg[1], cfg[2]).misses
    /\ max_bytes = ProxyCache_init(cfg[1], cfg[2]).max_bytes
    /\ max_entries = ProxyCache_init(cfg[1], cfg[2]).max_entries
    /\ now = 0

InitCache ==
    /\ \E cfg \in Configs : InitCacheVars(cfg)
    /\ lru = <<>>
    /\ last = NoCall
    /\ putKeys = {}
    /\ fresh = 0
    /\ InitHandler
    /\ InitWorkers
    /\ InitText
    /\ InitThreads
    /\ InitCall
    /\ InitBackup
    /\ InitCellar

CallPut(url, status, headers, body, ttl) ==
    /\ Becomes(ProxyCache_put(Self, url, status, headers, body, ttl, now))
    /\ lru' = SelectSeq(IF Stores(body, ttl) THEN Touch(lru, url) ELSE lru,
                        LAMBDA k : k \in Range(Keys(cache')))
    /\ last' = [op |-> "put", after |-> "", url |-> url, status |-> status,
                headers |-> headers, body |-> body, ttl |-> ttl, at |-> now,
                ret |-> <<>>,
                removed |-> Cardinality(Range(Keys(cache))
                                        \ (Range(Keys(cache')) \cup {url}))]
    /\ putKeys' = putKeys \cup {url}
    /\ UNCHANGED now

Put ==
    \E url \in HotKeys, a \in PutArgs :
        /\ CallPut(url, a[1], a[2], a[3], a[4])
        /\ UNCHANGED fresh

PutFiller ==
    /\ Wide
    /\ fresh < NFiller
    /\ CallPut(101 + fresh, FillerArgs[1], FillerArgs[2], FillerArgs[3],
               FillerArgs[4])
    /\ fresh' = fresh + 1

Get ==
    \E url \in HotKeys :
        LET r == ProxyCache_get(Self, url, now) IN
        /\ hits + misses < MaxLookups
        /\ Becomes(r[1])
        /\ lru' = SelectSeq(IF r[2] # Absent THEN Touch(lru, url) ELSE lru,
                            LAMBDA k : k \in Range(Keys(cache')))
        /\ last' = [NoCall EXCEPT !.op = "get", !.after = last.op,
                                  !.url = url, !.at = now, !.ret = r[2],
                                  !.removed = Len(cache) - Len(cache')]
        /\ UNCHANGED <<now, putKeys, fresh>>

Stats ==
    /\ last.op # "stats"
    /\ last' = [NoCall EXCEPT !.op = "stats", !.at = now,
                              !.ret = <<ProxyCache_stats(Self)>>]
    /\ UNCHANGED <<cvars, lru, putKeys, fresh>>

Tick ==
    /\ ~Wide
    /\ now < MaxNow
    /\ now' = now + 1
    /\ UNCHANGED <<cache, size, hits, misses, max_bytes, max_entries, hvars>>

NextCache ==
    \/ Put /\ UNCHANGED <<rvars, kvars, wvars, tvars, xvars>>
    \/ PutFiller /\ UNCHANGED <<rvars, kvars, wvars, tvars, xvars>>
    \/ Get /\ UNCHANGED <<rvars, kvars, wvars, tvars, xvars>>
    \/ Stats /\ UNCHANGED <<rvars, kvars, wvars, tvars, xvars>>
    \/ Tick /\ UNCHANGED <<rvars, kvars, wvars, tvars, xvars>>

SpecCache == InitCache /\ [][NextCache]_vars

----------------------------------------------------------------------------
(* ProxyCache under threads: a step is one statement of get, put, stats or *)
(* _remove; `x += 1` on an attribute is a read and then a write            *)

\* threading.Lock: `with self._lock` enters when no thread holds the lock
CanAcquire_always(l) == TRUE
CanAcquire(l) == l = {}

\* frames
SameCache == UNCHANGED <<cache, size, hits, misses, max_bytes, max_entries, now>>
SameLock == UNCHANGED <<lock, ref, calls>>
Elsewhere == UNCHANGED <<hvars, rvars, wvars, tvars, xvars>>

\* a worker calls get(url), put(url, ...) or stats()
Call(w, op, url, arg) ==
    /\ wk[w].pc = "idle"
    /\ calls < MaxCalls
    /\ calls' = calls + 1
    /\ wk' = [wk EXCEPT ![w] = [NoLocals EXCEPT
                 !.pc = CASE op = "get" -> "get_lock"
                          [] op = "put" -> "put_268"
                          [] OTHER -> "stats_lock",
                 !.op = op, !.url = url, !.arg = arg, !.conc = lock # {}]]
    /\ SameCache
    /\ UNCHANGED <<lock, ref>>
    /\ Elsewhere

\* put, lines 268-272: return at once for ttl <= 0 and for a body over a
\* tenth of max_bytes
PutCheck(w) ==
    /\ wk[w].pc = "put_268"
    /\ IF NoTtl(wk[w].arg[4]) \/ TooLarge(Len(wk[w].arg[3]), max_bytes)
       THEN /\ wk' = [wk EXCEPT ![w].pc = "idle"]
            /\ ref' = ProxyCache_put(ref, wk[w].url, wk[w].arg[1], wk[w].arg[2],
                                     wk[w].arg[3], wk[w].arg[4], now)
       ELSE /\ wk' = [wk EXCEPT ![w].pc = "put_lock"]
            /\ UNCHANGED ref
    /\ SameCache
    /\ UNCHANGED <<lock, calls>>
    /\ Elsewhere

\* with self._lock: enter
Acquire(w) ==
    /\ wk[w].pc \in {"get_lock", "put_lock", "stats_lock"}
    /\ CanAcquire(lock)
    /\ lock' = lock \cup {w}
    /\ wk' = [wk EXCEPT ![w].pc = CASE wk[w].pc = "get_lock" -> "get_255"
                                    [] wk[w].pc = "put_lock" -> "put_274"
                                    [] OTHER -> "stats_291"]
    /\ SameCache
    /\ UNCHANGED <<ref, calls>>
    /\ Elsewhere

\* get, line 255: entry = self._cache.get(url)
Get255(w) ==
    /\ wk[w].pc = "get_255"
    /\ LET entry == Lookup(cache, wk[w].url) IN
       wk' = [wk EXCEPT ![w].entry = entry,
                        ![w].pc = IF entry = <<>> THEN "get_257" ELSE "get_259"]
    /\ SameCache /\ SameLock
    /\ Elsewhere

\* get, lines 257 and 261: self.misses += 1, the read
GetMissesRead(w) ==
    /\ wk[w].pc \in {"get_257", "get_261"}
    /\ wk' = [wk EXCEPT ![w].tmp = misses, ![w].pc = "get_miss_store"]
    /\ SameCache /\ SameLock
    /\ Elsewhere

\* get, lines 257-258 and 261-262: the write of self.misses; return None
GetMissesWrite(w) ==
    /\ wk[w].pc = "get_miss_store"
    /\ misses' = wk[w].tmp + 1
    /\ wk' = [wk EXCEPT ![w].ret = Absent, ![w].pc = "unlock"]
    /\ UNCHANGED <<cache, size, hits, max_bytes, max_entries, now>>
    /\ SameLock
    /\ Elsewhere

\* get, lines 259-260: if time.time() >= entry[3]: self._remove(url)
Get259(w) ==
    /\ wk[w].pc = "get_259"
    /\ wk' = IF Expired(now, wk[w].entry[1])
             THEN [wk EXCEPT ![w].t = now, ![w].key = wk[w].url,
                             ![w].back = "get_261", ![w].pc = "remove_285"]
             ELSE [wk EXCEPT ![w].t = now, ![w].pc = "get_263"]
    /\ SameCache /\ SameLock
    /\ Elsewhere

\* get, line 263: self._cache.move_to_end(url)
Get263(w) ==
    /\ wk[w].pc = "get_263"
    /\ cache' = MoveToEnd(cache, wk[w].url)
    /\ wk' = [wk EXCEPT ![w].pc = "get_264"]
    /\ UNCHANGED <<size, hits, misses, max_bytes, max_entries, now>>
    /\ SameLock
    /\ Elsewhere

\* get, line 264: self.hits += 1, the read
GetHitsRead(w) ==
    /\ wk[w].pc = "get_264"
    /\ wk' = [wk EXCEPT ![w].tmp = hits, ![w].pc = "get_hit_store"]
    /\ SameCache /\ SameLock
    /\ Elsewhere

\* get, lines 264-265: the write of self.hits; return the entry's triple
GetHitsWrite(w) ==
    /\ wk[w].pc = "get_hit_store"
    /\ hits' = wk[w].tmp + 1
    /\ wk' = [wk EXCEPT ![w].ret = <<wk[w].entry[1].status,
                                     wk[w].entry[1].headers,
                                     wk[w].entry[1].body>>,
                        ![w].pc = "unlock"]
    /\ UNCHANGED <<cache, size, misses, max_bytes, max_entries, now>>
    /\ SameLock
    /\ Elsewhere

\* _remove, lines 285-286: entry = self._cache.pop(url, None)
Remove285(w) ==
    /\ wk[w].pc = "remove_285"
    /\ LET entry == Lookup(cache, wk[w].key) IN
       /\ cache' = SelectSeq(cache, LAMBDA e : e.url # wk[w].key)
       /\ wk' = [wk EXCEPT ![w].popped = entry,
                           ![w].pc = IF entry = <<>> THEN wk[w].back
                                     ELSE "remove_287"]
    /\ UNCHANGED <<size, hits, misses, max_bytes, max_entries, now>>
    /\ SameLock
    /\ Elsewhere

\* _remove, line 287: self._size -= len(entry[2]), the read
RemoveSizeRead(w) ==
    /\ wk[w].pc = "remove_287"
    /\ wk' = [wk EXCEPT ![w].tmp = size, ![w].pc = "remove_store"]
    /\ SameCache /\ SameLock
    /\ Elsewhere

\* _remove, line 287: the write of self._size
RemoveSizeWrite(w) ==
    /\ wk[w].pc = "remove_store"
    /\ size' = wk[w].tmp - Len(wk[w].popped[1].body)
    /\ wk' = [wk EXCEPT ![w].pc = wk[w].back]
    /\ UNCHANGED <<cache, hits, misses, max_bytes, max_entries, now>>
    /\ SameLock
    /\ Elsewhere

\* put, lines 274-275: if url in self._cache: self._remove(url)
Put274(w) ==
    /\ wk[w].pc = "put_274"
    /\ wk' = IF Lookup(cache, wk[w].url) # <<>>
             THEN [wk EXCEPT ![w].key = wk[w].url, ![w].back = "put_276",
                             ![w].pc = "remove_285"]
             ELSE [wk EXCEPT ![w].pc = "put_276"]
    /\ SameCache /\ SameLock
    /\ Elsewhere

\* put, lines 276-280: the loop condition, the break on an empty cache, and
\* self._remove(next(iter(self._cache)))
Put276(w) ==
    /\ wk[w].pc = "put_276"
    /\ wk' = IF MustEvict(Self, Len(wk[w].arg[3])) /\ cache # <<>>
             THEN [wk EXCEPT ![w].key = Head(cache).url, ![w].back = "put_276",
                             ![w].pc = "remove_285"]
             ELSE [wk EXCEPT ![w].pc = "put_281"]
    /\ SameCache /\ SameLock
    /\ Elsewhere

\* put, line 281: self._cache[url] = (status, headers, body, time.time() + ttl)
\* (an assignment to a key the dict holds keeps the key's place)
Put281(w) ==
    /\ wk[w].pc = "put_281"
    /\ LET e == [url |-> wk[w].url, status |-> wk[w].arg[1],
                 headers |-> wk[w].arg[2], body |-> wk[w].arg[3],
                 exp |-> now + wk[w].arg[4]]
       IN cache' = IF Lookup(cache, wk[w].url) # <<>>
                   THEN [i \in 1..Len(cache) |->
                            IF cache[i].url = wk[w].url THEN e ELSE cache[i]]
                   ELSE Append(cache, e)
    /\ wk' = [wk EXCEPT ![w].t = now, ![w].pc = "put_282"]
    /\ UNCHANGED <<size, hits, misses, max_bytes, max_entries, now>>
    /\ SameLock
    /\ Elsewhere

\* put, line 282: self._size += size, the read
PutSizeRead(w) ==
    /\ wk[w].pc = "put_282"
    /\ wk' = [wk EXCEPT ![w].tmp = size, ![w].pc = "put_store"]
    /\ SameCache /\ SameLock
    /\ Elsewhere

\* put, line 282: the write of self._size
PutSizeWrite(w) ==
    /\ wk[w].pc = "put_store"
    /\ size' = wk[w].tmp + Len(wk[w].arg[3])
    /\ wk' = [wk EXCEPT ![w].pc = "unlock"]
    /\ UNCHANGED <<cache, hits, misses, max_bytes, max_entries, now>>
    /\ SameLock
    /\ Elsewhere

\* stats, lines 291-296
Stats291(w) ==
    /\ wk[w].pc = "stats_291"
    /\ wk' = [wk EXCEPT ![w].ret = <<ProxyCache_stats(Self)>>, ![w].pc = "unlock"]
    /\ SameCache /\ SameLock
    /\ Elsewhere

\* with self._lock: the lock when w has left the block
Released_kept(l, w) == l
Released(l, w) == l \ {w}

\* with self._lock: leave, and the call returns.  ref takes the same call, as
\* one step, at the time the call read
Release(w) ==
    /\ wk[w].pc = "unlock"
    /\ lock' = Released(lock, w)
    /\ LET got == ProxyCache_get(ref, wk[w].url, wk[w].t)
       IN CASE wk[w].op = "get" ->
                 /\ ref' = got[1]
                 /\ wk' = [wk EXCEPT ![w].want = got[2], ![w].pc = "idle"]
            [] wk[w].op = "put" ->
                 /\ ref' = ProxyCache_put(ref, wk[w].url, wk[w].arg[1],
                                          wk[w].arg[2], wk[w].arg[3],
                                          wk[w].arg[4], wk[w].t)
                 /\ wk' = [wk EXCEPT ![w].pc = "idle"]
            [] OTHER ->
                 /\ ref' = ref
                 /\ wk' = [wk EXCEPT ![w].want = <<ProxyCache_stats(ref)>>,
                                     ![w].pc = "idle"]
    /\ SameCache
    /\ UNCHANGED calls
    /\ Elsewhere

\* the cache of SpecConc, its keys and the arguments of its puts
ConcCache == <<10, 1>>
ConcKeys == {1, 2}
ConcPutArgs == {<<200, "hA", <<7>>, 1>>, <<200, "hA", <<7>>, 0>>}

InitConc ==
    /\ InitCacheVars(ConcCache)
    /\ lru = <<>>
    /\ last = NoCall
    /\ putKeys = {}
    /\ fresh = 0
    /\ InitHandler
    /\ InitWorkers
    /\ InitText
    /\ InitThreads
    /\ InitCall
    /\ InitBackup
    /\ InitCellar

NextConc ==
    \/ \E w \in Workers :
            \/ \E url \in ConcKeys : Call(w, "get", url, <<>>)
            \/ \E url \in ConcKeys, a \in ConcPutArgs : Call(w, "put", url, a)
            \/ Call(w, "stats", 0, <<>>)
            \/ PutCheck(w)
            \/ Acquire(w)
            \/ Get255(w)
            \/ GetMissesRead(w)
            \/ GetMissesWrite(w)
            \/ Get259(w)
            \/ Get263(w)
            \/ GetHitsRead(w)
            \/ GetHitsWrite(w)
            \/ Remove285(w)
            \/ RemoveSizeRead(w)
            \/ RemoveSizeWrite(w)
            \/ Put274(w)
            \/ Put276(w)
            \/ Put281(w)
            \/ PutSizeRead(w)
            \/ PutSizeWrite(w)
            \/ Stats291(w)
            \/ Release(w)
    \/ Tick /\ UNCHANGED <<rvars, kvars, wvars, tvars, xvars>>

SpecConc == InitConc /\ [][NextConc]_vars

----------------------------------------------------------------------------
(* SpecLock: handler threads, their calls on the cache statement by       *)
(* statement, and their network I/O between the calls.  A worker's pc is  *)
(* a position inside a cache call, as in SpecConc, or idle (between two   *)
(* statements of the handler), fetch (inside _fetch_via_php or           *)
(* _fetch_direct), write (inside _send_response or send_error) or relay   *)
(* (inside the relay loop of do_CONNECT)                                  *)

IoFrame == SameCache /\ SameLock /\ Elsewhere

\* do_GET: a GET arrives, _handle_request calls cache.get(target_url)
HandlerGet(w, url) ==
    /\ wk[w].op = ""
    /\ Call(w, "get", url, <<>>)

\* _handle_status calls cache.stats()
HandlerStats(w) ==
    /\ wk[w].op = ""
    /\ Call(w, "stats", 0, <<>>)

\* _handle_request: `if cached:` sends the entry, else a fetcher is called
AfterGet(w) ==
    /\ wk[w].pc = "idle"
    /\ wk[w].op = "get"
    /\ wk' = [wk EXCEPT ![w].pc = IF CacheHit(wk[w].ret) THEN "write"
                                  ELSE "fetch"]
    /\ IoFrame

\* the fetcher returns a response
FetchReturns(w) ==
    /\ wk[w].pc = "fetch"
    /\ wk' = [wk EXCEPT ![w].pc = "idle", ![w].op = "fetched"]
    /\ IoFrame

\* the fetcher raises: send_error(502)
FetchRaises(w) ==
    /\ wk[w].pc = "fetch"
    /\ wk' = [wk EXCEPT ![w].pc = "write", ![w].op = "error"]
    /\ IoFrame

\* _handle_request: cache.put(target_url, status, resp_headers, body, ttl)
HandlerPut(w, a) ==
    /\ wk[w].op = "fetched"
    /\ Call(w, "put", wk[w].url, a)

\* _handle_request after cache.put, _handle_status after cache.stats: the
\* response is written
AfterCall(w) ==
    /\ wk[w].pc = "idle"
    /\ wk[w].op \in {"put", "stats"}
    /\ wk' = [wk EXCEPT ![w].pc = "write"]
    /\ IoFrame

\* the client has taken the response: the handler returns
Written(w) ==
    /\ wk[w].pc = "write"
    /\ wk' = [wk EXCEPT ![w] = NoLocals]
    /\ IoFrame

\* do_CONNECT: the tunnel is established and the relay loop runs
Connect(w) ==
    /\ wk[w].pc = "idle"
    /\ wk[w].op = ""
    /\ wk' = [wk EXCEPT ![w].pc = "relay", ![w].op = "connect"]
    /\ IoFrame

\* do_CONNECT: the relay loop ends
RelayDone(w) ==
    /\ wk[w].pc = "relay"
    /\ wk' = [wk EXCEPT ![w] = NoLocals]
    /\ IoFrame

\* a statement of get, put, stats or _remove other than the wait for the
\* lock
CacheStep(w) ==
    \/ PutCheck(w)
    \/ Get255(w)
    \/ GetMissesRead(w)
    \/ GetMissesWrite(w)
    \/ Get259(w)
    \/ Get263(w)
    \/ GetHitsRead(w)
    \/ GetHitsWrite(w)
    \/ Remove285(w)
    \/ RemoveSizeRead(w)
    \/ RemoveSizeWrite(w)
    \/ Put274(w)
    \/ Put276(w)
    \/ Put281(w)
    \/ PutSizeRead(w)
    \/ PutSizeWrite(w)
    \/ Stats291(w)
    \/ Release(w)

\* a step of the handler between its calls and its I/O
HandlerStep(w) ==
    \/ AfterGet(w)
    \/ \E a \in ConcPutArgs : HandlerPut(w, a)
    \/ AfterCall(w)

NextLock ==
    \/ \E w \in Workers, url \in ConcKeys : HandlerGet(w, url)
    \/ \E w \in Workers : HandlerStats(w)
    \/ \E w \in Workers : Connect(w)
    \/ \E w \in Workers : Acquire(w)
    \/ \E w \in Workers : CacheStep(w)
    \/ \E w \in Workers : HandlerStep(w)
    \/ \E w \in Workers : FetchReturns(w)
    \/ \E w \in Workers : FetchRaises(w)
    \/ \E w \in Workers : Written(w)
    \/ \E w \in Workers : RelayDone(w)
    \/ Tick /\ UNCHANGED <<rvars, kvars, wvars, tvars, xvars>>

\* every thread is scheduled again and again, a thread that waits for the
\* lock gets it when it is free often enough, and a client takes the
\* response written to it; a fetcher and a tunnel may take for ever
SpecLock ==
    /\ InitConc
    /\ [][NextLock]_vars
    /\ \A w \in Workers :
          /\ SF_vars(Acquire(w))
          /\ WF_vars(CacheStep(w))
          /\ WF_vars(HandlerStep(w))
          /\ WF_vars(Written(w))

----------------------------------------------------------------------------
(* Spec: the handler on requests of every shape *)

\* the variables of the other specifications
Others == UNCHANGED <<kvars, wvars, tvars, xvars>>

Hosts == {OnionLc, OnionUc, Clear, ClearTricky}

\* (method, Content-Length)
Methods == {<<"GET", 0>>, <<"POST", 0>>, <<"POST", 5>>, <<"HEAD", 0>>}

\* (host, port) of the absolute URIs
AbsTargets == {<<OnionLc, NoPort>>, <<OnionLc, 8080>>, <<OnionUc, NoPort>>,
               <<OnionUc, 80>>, <<Clear, NoPort>>, <<Clear, 80>>,
               <<Clear, 8080>>, <<ClearTricky, NoPort>>}

Requests ==
    {Request(m[1], "abs", t[1], t[2], "/", m[2], FALSE) :
        m \in Methods, t \in AbsTargets}
    \cup {Request(m[1], "proxy", h, NoPort, "/", m[2], FALSE) :
        m \in Methods, h \in Hosts}
    \cup {Request(m[1], "status", <<>>, NoPort, "", m[2], b) :
        m \in Methods, b \in BOOLEAN}
    \cup {Request(m[1], k, <<>>, NoPort, "", m[2], FALSE) :
        m \in Methods, k \in {"setup", "other"}}
    \cup {Request("CONNECT", "authority", h, 443, "", 0, FALSE) : h \in Hosts}
    \cup {Request("CONNECT", "badauth", Clear, NoPort, "", 0, FALSE)}

HtmlBody == <<Tok("scheme", <<>>, "https"), HostTok(OnionLc),
              Tok("path", <<>>, "/x"), Tok("space", <<>>, " "),
              Tok("attr", <<>>, "href"), Tok("path", <<>>, "/y"),
              Tok("quote", <<>>, "")>>

\* what an upstream may answer
Upstream ==
    {Response(200, Headers(CtHtml, CcNone, <<>>), HtmlBody),
     Response(302, Headers("", CcNone, Location("http", OnionLc, NoPort, "/")), <<>>),
     Response(302, Headers("", CcNone, Location("http", Clear, NoPort, "/")), <<>>),
     Response(302, Headers("", CcNone, Location("https", Clear, NoPort, "/")), <<>>),
     Response(500, Headers("", CcNone, <<>>), <<>>)}

\* ThreadingHTTPServer.__init__: self.cache = ProxyCache(), with the ceilings
\* scaled down
ServerCache == <<100, 2>>

Init ==
    /\ InitCacheVars(ServerCache)
    /\ lru = <<>>
    /\ last = NoCall
    /\ putKeys = {}
    /\ fresh = 0
    /\ InitHandler
    /\ InitWorkers
    /\ InitText
    /\ InitThreads
    /\ InitCall
    /\ InitBackup
    /\ InitCellar

Next ==
    \/ \E r \in Requests, ok \in BOOLEAN : Receive(r, ok) /\ Others
    \/ PhpResponds(Upstream) /\ Others
    \/ DirectResponds(Upstream) /\ Others
    \/ RelayChunk({"x"}) /\ Others
    \/ RelayEnd({"eof_remote", "timeout"}, {}) /\ Others
    \/ Clock({30}) /\ Others

Spec == Init /\ [][Next]_vars

----------------------------------------------------------------------------
(* SpecResp: GET requests, the content types and cache-control headers of *)
(* the responses, and the clock in steps of ten seconds                   *)

GetRequests ==
    {Request("GET", "abs", OnionLc, NoPort, "/", 0, FALSE),
     Request("GET", "proxy", OnionLc, NoPort, "/", 0, FALSE),
     Request("GET", "abs", Clear, NoPort, "/", 0, FALSE)}

\* a body over a tenth of the byte ceiling of ServerCache
BigBody == HtmlBody \o HtmlBody

CcNoStore == <<[name |-> "no-store", num |-> <<>>]>>
CcPrivate == <<[name |-> "private", num |-> <<>>],
               [name |-> "max-age", num |-> <<60>>]>>

UpstreamResp ==
    {Response(200, Headers(CtHtml, CcNone, <<>>), HtmlBody),
     Response(200, Headers(CtHtml, CcNone, <<>>), BigBody),
     Response(200, Headers(CtHtml, CcNoStore, <<>>), HtmlBody),
     Response(200, Headers(CtHtml, CcPrivate, <<>>), HtmlBody),
     Response(200, Headers(CtHtmlUpper, CcNone, <<>>), HtmlBody),
     Response(200, Headers(CtJs, CcNone, <<>>), HtmlBody)}

NextResp ==
    \/ \E r \in GetRequests : Receive(r, TRUE) /\ Others
    \/ PhpResponds(UpstreamResp) /\ Others
    \/ DirectResponds(UpstreamResp) /\ Others
    \/ Clock({10, 30}) /\ Others

SpecResp == Init /\ [][NextResp]_vars

----------------------------------------------------------------------------
(* SpecRedirect: clearnet requests, and an upstream that answers with     *)
(* redirects of every form                                                *)

RedirectRequests ==
    {Request("GET", "abs", Clear, NoPort, "/", 0, FALSE),
     Request("HEAD", "abs", Clear, NoPort, "/", 0, FALSE),
     Request("POST", "abs", Clear, 8080, "/", 5, FALSE)}

\* a Location is absolute with the scheme http, https or ftp, or a path
\* (urlparse gives it the scheme '' and no host), or there is none; a
\* response that is no redirect may have one too
RedirectUpstream ==
    {Response(200, Headers(CtHtml, CcNone, <<>>), HtmlBody),
     Response(200, Headers(CtHtml, CcNone,
                           Location("http", Clear, NoPort, "/")), HtmlBody),
     Response(304, Headers("", CcNone,
                           Location("http", Clear, NoPort, "/")), <<>>),
     Response(302, Headers("", CcNone,
                           Location("http", Clear, 8080, "/")), <<>>),
     Response(301, Headers("", CcNone,
                           Location("https", Clear, NoPort, "/")), <<>>),
     Response(307, Headers("", CcNone,
                           Location("ftp", Clear, NoPort, "/")), <<>>),
     Response(303, Headers("", CcNone,
                           Location("", <<>>, NoPort, "/")), <<>>),
     Response(308, Headers("", CcNone, <<>>), <<>>)}

NextRedirect ==
    \/ \E r \in RedirectRequests : Receive(r, TRUE) /\ Others
    \/ DirectResponds(RedirectUpstream) /\ Others

SpecRedirect == Init /\ [][NextRedirect]_vars

----------------------------------------------------------------------------
(* SpecTunnel: CONNECT requests and their tunnels *)

ConnectRequests == {r \in Requests : r.method = "CONNECT"}

NextTunnel ==
    \/ \E r \in ConnectRequests, ok \in BOOLEAN : Receive(r, ok) /\ Others
    \/ RelayChunk(Chunks) /\ Others
    \/ RelayEnd(Causes, Chunks) /\ Others

SpecTunnel == Init /\ [][NextTunnel]_vars

----------------------------------------------------------------------------
(* SpecPar: two handler threads on one cache.  A thread runs a phase of   *)
(* its handler at a time (the calls on the cache are atomic, the rest of  *)
(* a handler is local to its thread), and the threads take turns in any   *)
(* order                                                                  *)

\* requests that end in an error, and requests that need not
ParRequests ==
    {Request("GET", "abs", OnionLc, NoPort, "/", 0, FALSE),
     Request("GET", "abs", Clear, NoPort, "/", 0, FALSE),
     Request("GET", "abs", Clear, 8080, "/", 0, FALSE),
     Request("GET", "other", <<>>, NoPort, "", 0, FALSE),
     Request("GET", "proxy", Clear, NoPort, "/", 0, FALSE),
     Request("CONNECT", "authority", OnionLc, 443, "", 0, FALSE),
     Request("CONNECT", "authority", Clear, 443, "", 0, FALSE),
     Request("CONNECT", "badauth", Clear, NoPort, "", 0, FALSE)}

ParUpstream == {Response(200, Headers(CtHtml, CcNone, <<>>), HtmlBody)}

\* the handler of the running thread, as a record
Handler == [pc |-> pc, req |-> req, hop |-> hop, sent |-> sent, tr |-> tr,
            tunnel |-> tunnel]

\* the handler of thread w
HandlerOf(w) == IF w = running THEN Handler ELSE parked[w]

\* ThreadingMixIn: another thread gets the processor
Switch(w) ==
    /\ w # running
    /\ running' = w
    /\ parked' = [parked EXCEPT ![running] = Handler, ![w] = NoHandler]
    /\ pc' = parked[w].pc
    /\ req' = parked[w].req
    /\ hop' = parked[w].hop
    /\ sent' = parked[w].sent
    /\ tr' = parked[w].tr
    /\ tunnel' = parked[w].tunnel
    /\ UNCHANGED <<cvars, hvars, marker, served, kvars, wvars, xvars>>

\* thread w runs: its fetcher returns or raises, or its tunnel ends
Progress(w) ==
    /\ running = w
    /\ \/ PhpResponds(ParUpstream)
       \/ DirectResponds(ParUpstream)
       \/ RelayEnd({"eof_client", "timeout"}, {})
    /\ Others

NextPar ==
    \/ \E r \in ParRequests, ok \in BOOLEAN : Receive(r, ok) /\ Others
    \/ PhpResponds(ParUpstream) /\ Others
    \/ DirectResponds(ParUpstream) /\ Others
    \/ RelayChunk({"x"}) /\ Others
    \/ RelayEnd({"eof_client", "timeout"}, {}) /\ Others
    \/ Clock({30}) /\ Others
    \/ \E w \in Threads : Switch(w)

\* every thread gets the processor again and again, a fetcher returns or
\* raises within its timeout, and a tunnel ends
SpecPar ==
    /\ Init
    /\ [][NextPar]_vars
    /\ \A w \in Threads : WF_vars(Switch(w)) /\ SF_vars(Progress(w))

----------------------------------------------------------------------------
(* SpecTtl: _cache_ttl applied to a content type and a cache-control header *)

\* content types: every row of the table, html in capitals, two types off
\* the table, and no content type
TtlTypes ==
    {CtHtml, CtHtmlUpper, CtJs, "text/javascript", "text/css",
     "application/wasm", "image/png", "image/svg+xml", "application/svg+xml",
     "font/woff2", "application/font-woff", "application/json", "text/plain",
     CtDefault, ""}

Directive(name, num) == [name |-> name, num |-> num]

\* cache-control headers: none, no-store and private alone and before and
\* after a max-age, max-age below, at and above 3600, zero, negative and
\* not a number, and a header of other directives
TtlControls ==
    {CcNone,
     <<Directive("no-store", <<>>)>>,
     <<Directive("private", <<>>)>>,
     <<Directive("no-store", <<>>), Directive("max-age", <<60>>)>>,
     <<Directive("max-age", <<60>>), Directive("private", <<>>)>>,
     <<Directive("public", <<>>)>>,
     <<Directive("public", <<>>), Directive("max-age", <<60>>)>>,
     <<Directive("max-age", <<0>>)>>,
     <<Directive("max-age", <<3599>>)>>,
     <<Directive("max-age", <<3600>>)>>,
     <<Directive("max-age", <<3601>>)>>,
     <<Directive("max-age", <<-5>>)>>,
     <<Directive("max-age", <<>>)>>}

InitTtl ==
    /\ InitCacheVars(ServerCache)
    /\ lru = <<>>
    /\ last = NoCall
    /\ putKeys = {}
    /\ fresh = 0
    /\ InitHandler
    /\ InitWorkers
    /\ InitText
    /\ InitThreads
    /\ InitBackup
    /\ InitCellar
    /\ args \in TtlTypes \X TtlControls
    /\ ret = <<>>

\* ttl = _cache_ttl(resp_content_type, resp_headers.get('cache-control', ''))
TtlCall ==
    /\ ret = <<>>
    /\ ret' = <<CacheTtl(args[1], args[2])>>
    /\ UNCHANGED <<cvars, hvars, rvars, kvars, wvars, tvars, args, bk, cel>>

NextTtl == TtlCall

SpecTtl == InitTtl /\ [][NextTtl]_vars

----------------------------------------------------------------------------
(* SpecUrl: the target URL of _handle_request, which is the cache key,    *)
(* computed for two requests                                              *)

\* the requests that reach the URL: absolute URIs with the host in either
\* letter case and the port absent, 0, 80 or 8080, and /proxy/ paths
UrlRequests ==
    {Request("GET", "abs", h, p, "/", 0, FALSE) :
        h \in {OnionLc, OnionUc, Clear}, p \in {NoPort, 0, 80, 8080}}
    \cup {Request("GET", "proxy", h, NoPort, "/", 0, FALSE) :
        h \in {OnionLc, OnionUc}}

InitUrl ==
    /\ InitCacheVars(ServerCache)
    /\ lru = <<>>
    /\ last = NoCall
    /\ putKeys = {}
    /\ fresh = 0
    /\ InitHandler
    /\ InitWorkers
    /\ InitText
    /\ InitThreads
    /\ InitBackup
    /\ InitCellar
    /\ args \in UrlRequests \X UrlRequests
    /\ ret = <<>>

\* _handle_request, lines 423-452, for each of the two requests
UrlCall ==
    /\ ret = <<>>
    /\ ret' = <<ReqUrl(args[1]), ReqUrl(args[2])>>
    /\ UNCHANGED <<cvars, hvars, rvars, kvars, wvars, tvars, args, bk, cel>>

NextUrl == UrlCall

SpecUrl == InitUrl /\ [][NextUrl]_vars

----------------------------------------------------------------------------
(* SpecBackup: create_backup and restore_from_backup                      *)
(* (src/src/backup_manager.py), a statement that can raise at a time      *)

\* a statement of the try block.  run: it is a subprocess.run; check: a
\* non-zero return code raises (check=True, or `if result.returncode != 0:
\* raise`); needs: the file of the staging directory it opens or tests for,
\* raising when it is not there; onlyif: the file without which it is
\* skipped; adds: the files it writes into the staging directory
Stmt(l, run, check, needs, onlyif, adds) ==
    [l |-> l, run |-> run, check |-> check, needs |-> needs,
     onlyif |-> onlyif, adds |-> adds]

\* create_backup, lines 82-154
CreateStmts ==
    <<Stmt("makedirs_tor", FALSE, FALSE, "", "", {}),
      Stmt("cat_secret_key", TRUE, TRUE, "", "", {"secret"}),
      Stmt("cat_public_key", TRUE, TRUE, "", "", {"public"}),
      Stmt("makedirs_db", FALSE, FALSE, "", "", {}),
      Stmt("get_db_credentials", TRUE, TRUE, "", "", {}),
      Stmt("mariadb_dump", TRUE, TRUE, "", "", {"sql"}),
      Stmt("docker_cp_wpcontent", TRUE, TRUE, "", "", {"wp"}),
      Stmt("write_metadata", FALSE, FALSE, "", "", {"metadata"}),
      Stmt("zip", TRUE, TRUE, "", "", {}),
      Stmt("log_complete", FALSE, FALSE, "", "", {})>>

\* restore_from_backup, lines 199-278; extractall writes what the archive
\* holds
RestoreStmts ==
    <<Stmt("extractall", FALSE, FALSE, "", "", {}),
      Stmt("load_metadata", FALSE, FALSE, "metadata", "", {}),
      Stmt("exists_secret_key", FALSE, FALSE, "secret", "", {}),
      Stmt("docker_cp_secret_key", TRUE, TRUE, "", "", {}),
      Stmt("chmod_secret_key", TRUE, TRUE, "", "", {}),
      Stmt("exists_public_key", FALSE, FALSE, "public", "", {}),
      Stmt("docker_cp_public_key", TRUE, TRUE, "", "", {}),
      Stmt("chmod_public_key", TRUE, TRUE, "", "", {}),
      Stmt("exists_sql", FALSE, FALSE, "sql", "", {}),
      Stmt("get_db_credentials", TRUE, TRUE, "", "", {}),
      Stmt("docker_cp_sql", TRUE, TRUE, "", "", {}),
      Stmt("mariadb_import", TRUE, TRUE, "", "", {}),
      Stmt("rm_sql", TRUE, FALSE, "", "", {}),
      Stmt("docker_cp_wpcontent", TRUE, TRUE, "", "wp", {}),
      Stmt("chown_wpcontent", TRUE, FALSE, "", "wp", {}),
      Stmt("return_metadata", FALSE, FALSE, "", "", {})>>

StmtsOf(fn) == IF fn = "create" THEN CreateStmts ELSE RestoreStmts

\* what a backup archive may hold
ArchiveFiles == {"metadata", "secret", "public", "sql", "wp"}
Archives == {ArchiveFiles} \cup {ArchiveFiles \ {f} : f \in ArchiveFiles}

\* how a statement may go: it completes, its command exits non-zero, or it
\* raises (a timeout, an OSError, a bad archive or password)
Outcomes == {"ok", "nonzero", "raises"}

\* the finally clause: shutil.rmtree(staging, ignore_errors=True), run
\* whether or not an exception is pending
Cleanup_onsuccess(staging, exc) == IF exc THEN staging ELSE "removed"
Cleanup(staging, exc) == "removed"

\* staging = tempfile.mkdtemp(...): the call begins.  zf is the archive
\* restore_from_backup is given
BackupCall(fn, zf) ==
    /\ bk.pc = "idle"
    /\ bk.calls < MaxBackups
    /\ bk' = [fn |-> fn, pc |-> "try", i |-> 1, staging |-> "present",
              files |-> {}, exc |-> FALSE, at |-> "", ended |-> "",
              calls |-> bk.calls + 1,
              zf |-> IF fn = "restore" THEN zf ELSE {}]
    /\ UNCHANGED <<cvars, hvars, rvars, kvars, wvars, tvars, args, ret, cel>>

\* statement bk.i of the try block runs
BackupStmt(outcome) ==
    /\ bk.pc = "try"
    /\ LET st == StmtsOf(bk.fn)[bk.i]
           skipped == st.onlyif # "" /\ st.onlyif \notin bk.files
           raised == /\ ~skipped
                     /\ \/ outcome = "raises"
                        \/ outcome = "nonzero" /\ st.check
                        \/ st.needs # "" /\ st.needs \notin bk.files
           wrote == IF st.l = "extractall" THEN bk.zf ELSE st.adds
       IN /\ outcome = "nonzero" => st.run
          /\ skipped => outcome = "ok"
          /\ bk' = IF raised
                   THEN [bk EXCEPT !.exc = TRUE, !.at = st.l, !.pc = "finally"]
                   ELSE [bk EXCEPT
                           !.files = IF skipped THEN @ ELSE @ \cup wrote,
                           !.pc = IF bk.i = Len(StmtsOf(bk.fn))
                                  THEN "finally" ELSE "try",
                           !.i = IF bk.i = Len(StmtsOf(bk.fn))
                                 THEN @ ELSE @ + 1]
    /\ UNCHANGED <<cvars, hvars, rvars, kvars, wvars, tvars, args, ret, cel>>

\* the finally clause, and the function returns or the exception goes on
BackupFinally ==
    /\ bk.pc = "finally"
    /\ bk' = [bk EXCEPT
                !.staging = Cleanup(bk.staging, bk.exc),
                !.files = IF Cleanup(bk.staging, bk.exc) = "removed"
                          THEN {} ELSE @,
                !.ended = IF bk.exc THEN "raised" ELSE "returned",
                !.pc = "idle"]
    /\ UNCHANGED <<cvars, hvars, rvars, kvars, wvars, tvars, args, ret, cel>>

NextBackup ==
    \/ \E zf \in Archives : BackupCall("create", zf)
    \/ \E zf \in Archives : BackupCall("restore", zf)
    \/ \E outcome \in Outcomes : BackupStmt(outcome)
    \/ BackupFinally

SpecBackup == Init /\ [][NextBackup]_vars

----------------------------------------------------------------------------
(* SpecCellar: cellar_poller (src/src/cellar.py) over one registry entry, *)
(* one polling pass a step. The commands run in the containers answer as  *)
(* they will: the healthcheck and the content check succeed or fail, the  *)
(* master key is unlocked or not, cellar-tor-manager.sh takeover exits    *)
(* with 0, 2 or something else, and release succeeds or fails. The        *)
(* registry is read at the start of a pass and written at its end, and    *)
(* both are taken to succeed. The polling interval (_fast_poll_remaining, *)
(* time.sleep) and last_healthcheck are left out: no decision of the pass *)
(* reads them.                                                            *)

\* what _do_takeover can return
TakeoverResults == {"ok", "locked", "failed"}

\* the pass goes on to a takeover (line 394); _early is without the
\* threshold
ShouldTakeOver_early(new_fail_count, takeover_active) == ~takeover_active
ShouldTakeOver(new_fail_count, takeover_active) ==
    new_fail_count >= FAIL_THRESHOLD /\ ~takeover_active

\* the loop body of cellar_poller for the entry, and _write_registry after
\* it: hc_ok, unlocked and content_ok are what _check_healthcheck,
\* _is_cellar_unlocked and _check_content return, result what _do_takeover
\* returns, released what _do_release returns
PollEntry(hc_ok, unlocked, content_ok, result, released) ==
    LET e == cel.entry
        new_fail_count == e.fail_count + 1
        failing == [e EXCEPT !.fail_count = new_fail_count,
                             !.status = "failing"]
        ranHc == [NoRan EXCEPT !.hc = IF hc_ok THEN "ok" ELSE "fail"]
    IN
    /\ cel.polls < MaxPolls
    /\ cel' =
         [cel EXCEPT
            !.polls = @ + 1,
            !.streak = IF hc_ok THEN 0 ELSE @ + 1,
            !.entry =
              IF hc_ok
              THEN IF e.takeover_active
                   THEN [fail_count |-> 0, takeover_active |-> FALSE,
                         status |-> "healthy"]
                   ELSE IF e.fail_count > 0
                   THEN [e EXCEPT !.fail_count = 0, !.status = "healthy"]
                   ELSE [e EXCEPT !.status = "healthy"]
              ELSE IF ~ShouldTakeOver(new_fail_count, e.takeover_active)
                   THEN failing
                   ELSE IF ~unlocked
                   THEN [failing EXCEPT
                           !.status = "takeover_deferred_locked"]
                   ELSE IF content_ok
                   THEN failing
                   ELSE IF result = "ok"
                   THEN [failing EXCEPT !.takeover_active = TRUE,
                                        !.status = "taken_over"]
                   ELSE IF result = "locked"
                   THEN [failing EXCEPT
                           !.status = "takeover_deferred_locked"]
                   ELSE [failing EXCEPT !.status = "takeover_failed"],
            !.held =
              IF hc_ok
              THEN IF e.takeover_active /\ released THEN FALSE ELSE @
              ELSE IF /\ ShouldTakeOver(new_fail_count, e.takeover_active)
                      /\ unlocked
                      /\ ~content_ok
                      /\ result = "ok"
                   THEN TRUE
                   ELSE @,
            !.ran =
              IF hc_ok
              THEN IF e.takeover_active
                   THEN [ranHc EXCEPT
                           !.release = IF released THEN "ok" ELSE "failed"]
                   ELSE ranHc
              ELSE IF ~ShouldTakeOver(new_fail_count, e.takeover_active)
                   THEN ranHc
                   ELSE IF ~unlocked
                   THEN [ranHc EXCEPT !.unlocked = "no"]
                   ELSE IF content_ok
                   THEN [ranHc EXCEPT !.unlocked = "yes", !.content = "ok"]
                   ELSE [ranHc EXCEPT !.unlocked = "yes",
                                      !.content = "fail",
                                      !.takeover = result]]
    /\ UNCHANGED <<cvars, hvars, rvars, kvars, wvars, tvars, args, ret, bk>>

NextCellar ==
    \E hc_ok \in BOOLEAN, unlocked \in BOOLEAN, content_ok \in BOOLEAN,
       result \in TakeoverResults, released \in BOOLEAN :
        PollEntry(hc_ok, unlocked, content_ok, result, released)

SpecCellar == Init /\ [][NextCellar]_vars

----------------------------------------------------------------------------
(* SpecRewrite: _rewrite_onion_links applied to a document, and again *)

\* the tokens of the documents
Alphabet ==
    {Tok("scheme", <<>>, "http"), HostTok(OnionLc), Tok("path", <<>>, "/x"),
     ProxyTok, Tok("css", <<>>, "url("), Tok("attr", <<>>, "href"),
     Tok("quote", <<>>, ""), Tok("space", <<>>, " ")}

\* every document of at most MaxDoc tokens
Docs == UNION {[1..n -> Alphabet] : n \in 0..MaxDoc}

\* the onion_host argument of _rewrite_onion_links
RewriteHost == OnionLc

InitRewrite ==
    /\ InitCacheVars(ServerCache)
    /\ lru = <<>>
    /\ last = NoCall
    /\ putKeys = {}
    /\ fresh = 0
    /\ InitHandler
    /\ InitWorkers
    /\ InitThreads
    /\ InitCall
    /\ InitBackup
    /\ InitCellar
    /\ doc \in Docs
    /\ prev = doc
    /\ passes = 0

\* body = self._rewrite_onion_links(body, target_host)
RewritePass ==
    /\ passes < MaxPasses
    /\ prev' = doc
    /\ doc' = RewriteOnionLinks(doc, RewriteHost)
    /\ passes' = passes + 1
    /\ UNCHANGED <<cvars, hvars, rvars, kvars, tvars, xvars>>

NextRewrite == RewritePass

SpecRewrite == InitRewrite /\ [][NextRewrite]_vars

----------------------------------------------------------------------------
(* ProxyCache: the claims, under SpecCache *)

\* the step is a call of put (the clock stands still, last names the put)
PutStep == last'.op = "put" /\ now' = now
\* the step is a call of get
GetStep == last'.op = "get" /\ hits' + misses' = hits + misses + 1

\* the bytes the keys ks hold in the cache c
RECURSIVE BytesOf(_, _)
BytesOf(c, ks) ==
    IF c = <<>> THEN 0
    ELSE (IF Head(c).url \in ks THEN Len(Head(c).body) ELSE 0)
         + BytesOf(Tail(c), ks)

\* C5: after any sequence of put and get calls the resident bodies sum to at
\* most max_bytes and there are at most max_entries resident entries
CacheBounded ==
    /\ SumLen(cache) <= max_bytes
    /\ Len(cache) <= max_entries

\* a put has evicted to keep the byte ceiling, which is now met exactly
CacheBounded_Witness ==
    /\ last.op = "put"
    /\ last.removed > 0
    /\ SumLen(cache) = max_bytes
    /\ Len(cache) < max_entries

\* C38: in every state between two calls the byte total _size is the sum of
\* the lengths of the resident bodies, and it is never negative: after a
\* put that replaces the entry of its key, after a get that removed an
\* expired entry, and after evictions
SizeIsSumOfBodies ==
    /\ size = SumLen(cache)
    /\ size >= 0

\* a get has removed the expired entry of its key, and another entry is
\* resident
SizeIsSumOfBodies_Witness ==
    /\ last.op = "get"
    /\ last.removed = 1
    /\ last.ret = Absent
    /\ cache # <<>>
    /\ size = Len(cache[1].body)
    /\ size > 0

\* C6: eviction is least-recently-used. An access is a put that stores or a
\* get that returns the entry. A put leaves, of the other keys, the most
\* recently accessed ones (the evicted ones are the least recently accessed)
\* and evicts no more than the ceilings force; a get takes out no key but
\* its own; the cache keeps its keys in the order of their last access
LruEviction ==
    [][ /\ Keys(cache') = lru'
        /\ PutStep =>
             LET k == last'.url
                 before == Without(lru, k)
                 after == Without(Keys(cache'), k)
                 keep == SubSeq(before, Len(before) - Len(after), Len(before))
             IN /\ IsSuffix(after, before)
                /\ Len(after) < Len(before) =>
                     \/ BytesOf(cache, Range(keep)) + Len(last'.body) > max_bytes
                     \/ Len(keep) >= max_entries
        /\ GetStep => Without(Keys(cache'), last'.url) = Without(lru, last'.url)
      ]_vars

\* after a hit moved an older key to the end, a put evicted
LruEviction_Witness ==
    /\ last.op = "put"
    /\ last.removed > 0
    /\ hits > 0
    /\ Len(cache) > 1
    /\ cache[1].url > cache[2].url

\* C7 as stated: a put immediately followed by a get of the key, before the
\* ttl has elapsed, returns exactly the (status, headers, body) put
PutThenGet_Stated ==
    [][ (GetStep /\ last.op = "put" /\ last'.url = last.url
                /\ now < last.at + last.ttl)
        => last'.ret = <<last.status, last.headers, last.body>> ]_vars

\* C7, amended: the same for a put whose body is at most a tenth of the byte
\* ceiling (a larger body is not cached at all)
PutThenGet ==
    [][ (GetStep /\ last.op = "put" /\ last'.url = last.url
                /\ now < last.at + last.ttl
                /\ Len(last.body) <= max_bytes \div 10)
        => last'.ret = <<last.status, last.headers, last.body>> ]_vars

\* a get right after a put, later on the clock but before the expiry, hit
PutThenGet_Witness ==
    /\ last.op = "get"
    /\ last.after = "put"
    /\ last.ret # Absent
    /\ last.at > 0
    /\ \E i \in 1..Len(cache) :
          cache[i].url = last.url /\ cache[i].exp = last.at + 1

\* C8: get returns absent for a key that was never put, and for an entry
\* whose expiry time the clock has reached, and that get removes the entry
GetAbsent ==
    [][ GetStep =>
          LET k == last'.url
              e == SelectSeq(cache, LAMBDA x : x.url = k)
          IN (k \notin putKeys \/ (e # <<>> /\ now >= e[1].exp))
             => /\ last'.ret = Absent
                /\ k \notin Range(Keys(cache')) ]_vars

\* a get found its entry expired, exactly at the expiry time, and removed it
GetAbsent_Witness ==
    /\ last.op = "get"
    /\ last.ret = Absent
    /\ last.removed = 1
    /\ last.url \in putKeys
    /\ last.at = 2

\* the call leaves the entries, their order, the byte total and the counters
\* as they were
CacheUntouched ==
    /\ <<cache, size, hits, misses>>' = <<cache, size, hits, misses>>
    /\ lru' = lru

\* C26: a put with ttl <= 0 is a no-op: the entries, their recency order,
\* the byte total and the counters are unchanged, and what was put with a
\* ttl <= 0 is never resident
PutNoTtl ==
    /\ [](\A i \in 1..Len(cache) : cache[i].headers # "hC")
    /\ [][ (PutStep /\ last'.ttl <= 0) => CacheUntouched ]_vars

\* a put with a negative ttl was made for a key that has an entry, the cache
\* being full
PutNoTtl_Witness ==
    /\ last.op = "put"
    /\ last.ttl < 0
    /\ Len(cache) = max_entries
    /\ \E i \in 1..Len(cache) :
          cache[i].url = last.url /\ cache[i].headers # last.headers

\* C27: a put whose body is larger than a tenth of the byte ceiling is not
\* cached: nothing is inserted for the key and no entry is evicted or changed
PutTooLarge ==
    [][ (PutStep /\ Len(last'.body) > max_bytes \div 10) =>
            CacheUntouched ]_vars

\* a put with a body over the tenth was made with a positive ttl for a key
\* that has an entry, the cache being full
PutTooLarge_Witness ==
    /\ last.op = "put"
    /\ last.ttl > 0
    /\ Len(last.body) > max_bytes \div 10
    /\ Len(cache) = max_entries
    /\ \E i \in 1..Len(cache) :
          cache[i].url = last.url /\ cache[i].body # last.body

----------------------------------------------------------------------------
(* OnionProxyHandler: the claims, under Spec *)

\* h is an onion host: its name, in any letter case, ends in .onion
OnionHost(h) == EndsWith(ToLower(h), DotOnion)

\* the hosts do_CONNECT opened (or tried to open) a TCP connection to
TcpHosts == {tr.tcp[i].host : i \in 1..Len(tr.tcp)}

\* the step is the arrival of a request: the handler runs up to its
\* response, or up to the point where it waits for an upstream
RequestStep == pc = "idle" /\ (served' = served + 1 \/ pc' # "idle")

\* the request reaches the cache and fetch step of _handle_request
ReachesFetch(r) ==
    \/ r.kind = "abs"
    \/ r.kind = "proxy" /\ OnionHost(r.host)

\* C1: while handling any request, no direct connection (of _fetch_direct,
\* the redirect hops it follows included, or of do_CONNECT) is made to a
\* host ending in the onion suffix
NoDirectOnion ==
    \A h \in tr.dhosts \cup TcpHosts : ~OnionHost(h)

\* C2: a request with an absolute http:// URI that reaches the fetch step is
\* dispatched to _fetch_via_php and never to _fetch_direct when its host
\* ends in the onion suffix, and to _fetch_direct and never to
\* _fetch_via_php for every other host
Dispatch ==
    (req.kind = "abs" /\ (tr.php # <<>> \/ tr.direct > 0)) =>
        IF OnionHost(req.host)
        THEN /\ Len(tr.php) = 1
             /\ tr.direct = 0
             /\ tr.dhosts = {}
        ELSE /\ tr.php = <<>>
             /\ tr.direct >= 1
             /\ tr.first.host = ToLower(req.host)

\* an absolute URI whose onion host is written in capitals waits for the
\* forwarder
Dispatch_Witness ==
    /\ req.kind = "abs"
    /\ req.host = OnionUc
    /\ pc = "php"
    /\ Len(tr.php) = 1
    /\ tr.direct = 0

\* C3: a CONNECT whose target host is an onion host is answered with a 502
\* error, no TCP connection to the target is attempted and the handler does
\* not enter the relay loop
ConnectOnionRejected ==
    (req.method = "CONNECT" /\ req.kind = "authority" /\ OnionHost(req.host)) =>
        /\ sent = ErrorSent(502)
        /\ tr.tcp = <<>>
        /\ pc # "relay"

\* C4: a /proxy/{host}/{path} request whose host is not an onion host is
\* answered with an error, and no fetch, cache lookup or cache insertion is
\* made for it
ProxyFormRejected ==
    [][ (RequestStep /\ req'.kind = "proxy" /\ ~OnionHost(req'.host)) =>
            /\ sent' = ErrorSent(400)
            /\ pc' = "idle"
            /\ tr' = NoTr
            /\ hop' = NoHop
            /\ <<cache, size, hits, misses>>' = <<cache, size, hits, misses>>
      ]_vars

\* a /proxy/ request for a host with .onion inside but not at its end has
\* been refused, as the second request, with an entry in the cache
ProxyFormRejected_Witness ==
    /\ req.kind = "proxy"
    /\ req.host = ClearTricky
    /\ sent = ErrorSent(400)
    /\ served = 2
    /\ cache # <<>>

\* C10: the cache is consulted and filled only for GET. No step of the
\* handling of a POST or HEAD request calls get or put, the entries and the
\* hit/miss counters stay as they are, nothing is answered from the cache,
\* and a request that reaches the fetch step invokes one fetcher
OnlyGetUsesCache ==
    [][ req'.method \in {"POST", "HEAD"} =>
            /\ tr'.gets = 0
            /\ tr'.puts = 0
            /\ <<cache, size, hits, misses>>' = <<cache, size, hits, misses>>
            /\ sent'.kind # "cached"
            /\ (RequestStep /\ ReachesFetch(req')) =>
                   /\ Len(tr'.php) + tr'.direct = 1
                   /\ pc' \in {"php", "direct"}
      ]_vars

\* a HEAD request waits for the forwarder although the cache holds a live
\* entry for its URL
OnlyGetUsesCache_Witness ==
    /\ req.method = "HEAD"
    /\ pc = "php"
    /\ tr.gets = 0
    /\ \E i \in 1..Len(cache) : cache[i].url = ReqUrl(req) /\ now < cache[i].exp

----------------------------------------------------------------------------
(* OnionProxyHandler and the cache: the claims, under Spec and SpecResp *)

\* the live entries of the cache for the URL of request r
LiveFor(r) ==
    {i \in 1..Len(cache) : cache[i].url = ReqUrl(r) /\ now < cache[i].exp}

\* no fetcher is invoked in the step
NoFetch == tr'.php = <<>> /\ tr'.direct = 0 /\ pc' = "idle"
\* the step invokes one fetcher and waits for it
OneFetch == Len(tr'.php) + tr'.direct = 1 /\ pc' \in {"php", "direct"}

\* C11: a GET whose target URL has a live cache entry is answered from the
\* cache, with the stored status and body, and invokes no fetcher
HitServedFromCache ==
    [][ (RequestStep /\ req'.method = "GET" /\ ReachesFetch(req')
         /\ LiveFor(req') # {}) =>
            /\ NoFetch
            /\ sent'.kind = "cached"
            /\ \A i \in LiveFor(req') :
                 /\ sent'.code = cache[i].status
                 /\ sent'.body = cache[i].body
                 /\ sent'.headers = ForwardHeaders(cache[i].headers)
      ]_vars

\* the second of two identical onion GETs has been answered from the cache:
\* the forwarder was asked once
HitServedFromCache_Witness ==
    /\ served = 2
    /\ req.method = "GET"
    /\ OnionHost(req.host)
    /\ sent.kind = "cached"
    /\ sent.code = 200
    /\ sent.body # <<>>
    /\ tr.php = <<>>
    /\ hits = 1
    /\ misses = 1

\* the media type of the header value is text/html
IsHtml(ct) == ct \in {CtHtml, CtHtmlUpper}

\* the last request was a GET that was fetched, with a 2xx response of type
\* text/html without cache-control, and the step is the arrival of the same
\* GET again
SameGetAfterHtml ==
    /\ RequestStep
    /\ req' = req
    /\ req.method = "GET"
    /\ sent.kind = "proxied"
    /\ sent.code \in 200..299
    /\ IsHtml(sent.headers.ct)
    /\ sent.headers.cc = <<>>

\* the identical GET is a hit before 30 seconds have passed since the
\* response, and a miss with a new fetch from then on
HitFor30Seconds ==
    IF now < tr.at + 30
    THEN /\ NoFetch
         /\ sent'.kind = "cached"
         /\ sent'.code = sent.code
         /\ sent'.body = sent.body
    ELSE OneFetch

\* C12, as stated: a 2xx GET response with Content-Type text/html and no
\* cache-control header is cached for exactly 30 seconds
HtmlCached30_Stated ==
    [][ SameGetAfterHtml => HitFor30Seconds ]_vars

\* C12: the same, for a response whose body, as put in the cache, is no
\* longer than a tenth of the byte ceiling
HtmlCached30 ==
    [][ (SameGetAfterHtml /\ Len(sent.body) <= max_bytes \div 10)
            => HitFor30Seconds ]_vars

\* the identical GET, 10 seconds after the response, has been answered from
\* the cache
HtmlCached30_Witness ==
    /\ served = 2
    /\ req.method = "GET"
    /\ sent.kind = "cached"
    /\ IsHtml(sent.headers.ct)
    /\ now = 10
    /\ \E i \in 1..Len(cache) : cache[i].url = ReqUrl(req) /\ cache[i].exp = 30

\* the header has no-store or private
NoStore(cc) == CcHas(cc, "no-store") \/ CcHas(cc, "private")

\* C13: a response whose cache-control has no-store or private is never
\* cached: no entry for the URL is resident after it, and the same GET
\* again is fetched again
NoStoreNeverCached ==
    [][ /\ (pc \in {"php", "direct"} /\ pc' = "idle" /\ req.method = "GET"
            /\ sent'.kind = "proxied" /\ NoStore(sent'.headers.cc)) =>
               \A i \in 1..Len(cache') : cache'[i].url # ReqUrl(req)
        /\ (RequestStep /\ req' = req /\ req.method = "GET"
            /\ sent.kind = "proxied" /\ NoStore(sent.headers.cc)) =>
               /\ OneFetch
               /\ sent'.kind # "cached"
      ]_vars

\* two GETs have been answered with no-store responses: both were fetched
\* and the cache is empty
NoStoreNeverCached_Witness ==
    /\ served = 2
    /\ pc = "idle"
    /\ req.method = "GET"
    /\ sent.kind = "proxied"
    /\ CcHas(sent.headers.cc, "no-store")
    /\ Len(tr.php) = 1
    /\ tr.puts = 1
    /\ misses = 2
    /\ hits = 0
    /\ cache = <<>>

\* what the claim says the client gets for the body the fetcher returned
Expected(r, resp) ==
    IF OnionHost(r.host) /\ IsHtml(resp.headers.ct)
    THEN (IF r.kind = "abs" THEN DowngradeHttpsOnion(resp.body)
          ELSE RewriteOnionLinks(resp.body, ToLower(r.host)))
    ELSE resp.body

\* C14: a fetched body is rewritten if and only if the target host is an
\* onion host and the content type of the response is text/html: downgraded
\* for an absolute URI, path-rewritten for a /proxy/ path, and returned as
\* fetched in every other case
RewrittenIffOnionHtml ==
    (sent.kind = "proxied" /\ tr.resp # <<>> /\ req.method # "HEAD") =>
        sent.body = Expected(req, tr.resp[1])

----------------------------------------------------------------------------
(* Paths, redirects, the status document and CONNECT: the claims, under Spec *)

\* the step does nothing but answer: no call on the cache, no fetcher, no
\* tunnel, no marker written
NothingDone ==
    /\ pc' = "idle"
    /\ tr' = NoTr
    /\ tunnel' = NoTunnel
    /\ UNCHANGED <<cvars, marker>>

\* C21, as stated: for GET, POST and HEAD, a request target that is neither
\* the status path, nor an absolute URI, nor of the /proxy/ form yields a 404
\* and nothing else is done for it
OtherPathIs404_Stated ==
    [][ (RequestStep /\ req'.method \in {"GET", "POST", "HEAD"}
         /\ req'.kind \notin {"status", "abs", "proxy"}) =>
            (sent' = ErrorSent(404) /\ NothingDone) ]_vars

\* C21: the same, for a target that is not a /setup path either
OtherPathIs404 ==
    [][ (RequestStep /\ req'.method \in {"GET", "POST", "HEAD"}
         /\ req'.kind \notin {"status", "setup", "abs", "proxy"}) =>
            (sent' = ErrorSent(404) /\ NothingDone) ]_vars

\* a POST to a path of no accepted shape has been answered 404, with an entry
\* in the cache
OtherPathIs404_Witness ==
    /\ req.method = "POST"
    /\ req.kind = "other"
    /\ sent = ErrorSent(404)
    /\ served = 2
    /\ cache # <<>>

\* the response is a redirect to an https URL
HttpsRedirect(resp) ==
    /\ resp.status \in {301, 302, 303, 307, 308}
    /\ resp.headers.loc # <<>>
    /\ resp.headers.loc[1].scheme = "https"

\* C22: a clearnet response that redirects to an https URL is not followed,
\* and the client receives it as it is: the 3xx status together with the
\* redirect target
HttpsRedirectPassed ==
    (sent.kind = "proxied" /\ tr.direct > 0 /\ tr.resp # <<>>
     /\ HttpsRedirect(tr.resp[1]) /\ req.method # "HEAD") =>
        /\ sent.code = tr.resp[1].status
        /\ sent.body = tr.resp[1].body
        /\ "loc" \in DOMAIN sent.headers
        /\ sent.headers.loc = tr.resp[1].headers.loc

\* the step answers a request for /status
StatusStep == RequestStep /\ req'.kind = "status" /\ req'.method # "CONNECT"

\* the status document is sent, with the cache's numbers of the moment; no
\* fetcher is called; the cache is as it was
StatusAnswered ==
    /\ sent'.kind = "status"
    /\ sent'.code = 200
    /\ sent'.stats = <<[entries |-> Len(cache), size |-> size,
                        hits |-> hits, misses |-> misses]>>
    /\ NoFetch
    /\ tr' = NoTr
    /\ UNCHANGED <<cvars, hvars>>

\* C23, as stated: a request to the status path is answered with the status
\* document, triggers no fetch and changes neither the cache nor any other
\* state
StatusReadOnly_Stated ==
    [][ StatusStep => (StatusAnswered /\ marker' = marker) ]_vars

\* C23: the same, but for the extension-connected marker, which a request
\* that carries X-OnionPress-Browser writes
StatusReadOnly ==
    [][ StatusStep => (StatusAnswered
                       /\ (marker' # marker => req'.browser)) ]_vars

\* /status has been answered with an entry resident, by a request that
\* carries X-OnionPress-Browser
StatusReadOnly_Witness ==
    /\ req.kind = "status"
    /\ req.browser
    /\ sent.kind = "status"
    /\ Len(cache) = 1
    /\ sent.stats[1].entries = 1
    /\ sent.stats[1].misses = 1
    /\ marker = now

\* C28: cache.put is called only for a GET response with
\* 200 <= status < 400: no response of another status is in the cache, and
\* none is served from it
PutOnlyCacheable ==
    /\ tr.puts > 0 =>
          /\ req.method = "GET"
          /\ tr.resp # <<>>
          /\ tr.resp[1].status \in 200..399
    /\ \A i \in 1..Len(cache) : cache[i].status \in 200..399
    /\ sent.kind = "cached" => sent.code \in 200..399

\* a GET has been answered with the upstream's 500, and nothing was put
PutOnlyCacheable_Witness ==
    /\ req.method = "GET"
    /\ sent.kind = "proxied"
    /\ sent.code = 500
    /\ tr.gets = 1
    /\ tr.puts = 0
    /\ cache = <<>>

\* C29: a CONNECT request, whether refused, failed or relayed to its end,
\* calls no fetcher and leaves the cache's entries, byte total and counters
\* as they were
ConnectBypassesCache ==
    [][ ((RequestStep /\ req'.method = "CONNECT") \/ pc = "relay") =>
            /\ <<cache, size, hits, misses>>' = <<cache, size, hits, misses>>
            /\ tr'.php = <<>>
            /\ tr'.direct = 0
            /\ tr'.gets = 0
            /\ tr'.puts = 0
            /\ pc' \in {"idle", "relay"}
      ]_vars

\* a tunnel that relayed a chunk has ended, with an entry in the cache
ConnectBypassesCache_Witness ==
    /\ req.method = "CONNECT"
    /\ pc = "idle"
    /\ tunnel.cause # ""
    /\ tunnel.to_remote # <<>>
    /\ cache # <<>>
    /\ hits + misses > 0

\* C30: _fetch_direct follows at most 5 redirects (6 upstream requests in
\* all) and then returns the last response it received
RedirectsBounded ==
    [][ /\ tr'.direct <= 6
        /\ (pc = "direct" /\ tr.direct = 6 /\ tr' # tr) =>
              /\ pc' = "idle"
              /\ tr'.direct = 6
              /\ ~tr'.raised =>
                    /\ sent'.kind = "proxied"
                    /\ sent'.code = tr'.resp[1].status
      ]_vars

\* the sixth upstream request was answered with a redirect, which is what
\* the client got
RedirectsBounded_Witness ==
    /\ pc = "idle"
    /\ tr.direct = 6
    /\ sent.kind = "proxied"
    /\ sent.code = 302
    /\ tr.resp[1].headers.loc # <<>>
    /\ tr.resp[1].headers.loc[1].scheme = "http"

\* the names of the allow-list among the headers of the model: content-type
\* and cache-control (location is not on the list)
AllowListed == {"ct", "cc"}

\* the response written has the status, the allow-listed headers of h and
\* no other, a Content-Length of the length of body, and
\* Access-Control-Allow-Origin: *; the body is written unless the request
\* is a HEAD
WrittenFrom(status, h, body) ==
    /\ sent.code = status
    /\ DOMAIN sent.headers \subseteq AllowListed
    /\ \A n \in DOMAIN sent.headers : sent.headers[n] = h[n]
    /\ sent.clen = Len(body)
    /\ sent.acao = "*"
    /\ sent.body = IF req.method = "HEAD" THEN <<>> ELSE body

\* C33: a proxied response, fresh or from the cache, has besides the status
\* line only upstream headers of the allow-list, a Content-Length equal to
\* the length of the body the proxy holds, and
\* Access-Control-Allow-Origin: *; the body is written for GET and POST and
\* left out for HEAD
ResponseWellFormed ==
    /\ sent.kind = "proxied" =>
          WrittenFrom(tr.resp[1].status, tr.resp[1].headers,
                      RespBody(req, tr.resp[1]))
    /\ sent.kind = "cached" =>
          \E i \in 1..Len(cache) :
             /\ cache[i].url = ReqUrl(req)
             /\ WrittenFrom(cache[i].status, cache[i].headers, cache[i].body)

\* a HEAD request has been answered with the Content-Length of the body
\* fetched, and without the body
ResponseWellFormed_Witness ==
    /\ req.method = "HEAD"
    /\ sent.kind = "proxied"
    /\ tr.resp[1].body # <<>>
    /\ sent.clen = Len(tr.resp[1].body)
    /\ sent.body = <<>>
    /\ sent.acao = "*"

\* C36: the body an onion GET gets from the cache is the body a fresh fetch
\* and rewrite for a request of its style would give: downgraded for an
\* absolute URI, path-rewritten for a /proxy/ path, whatever request filled
\* the cache
CachedBodyMatchesStyle ==
    (sent.kind = "cached" /\ req.method = "GET" /\ OnionHost(req.host)) =>
        \E resp \in Upstream :
           /\ resp.status = sent.code
           /\ sent.body = RespBody(req, resp)

\* the same for the hits of a request of the style that filled the cache:
\* the entry's body is the one the same request got when it was fetched
CachedBodyOwnStyle ==
    [][ (sent.kind = "proxied" /\ sent'.kind = "cached" /\ req' = req
         /\ req.method = "GET") =>
            sent'.body = sent.body ]_vars

\* do_CONNECT has treated the host of the request as an onion host: 502
\* and no connection
ConnectSawOnion == sent = ErrorSent(502) /\ tr.tcp = <<>>

\* _handle_request classifies the host h, written in an absolute URI, as
\* onion
GetSeesOnion(h) ==
    IsOnion(TargetHost(Request("GET", "abs", h, NoPort, "/", 0, FALSE)))

\* C37: a host is classified alike on both entry paths: do_CONNECT treats
\* the host of its target as onion exactly when _handle_request classifies
\* that host as onion
ClassifiedAlike ==
    (req.method = "CONNECT" /\ req.kind = "authority") =>
        (ConnectSawOnion <=> GetSeesOnion(req.host))

\* the same, for the hosts written in lower case
ClassifiedAlike_Lower ==
    (req.method = "CONNECT" /\ req.kind = "authority"
     /\ req.host = ToLower(req.host)) =>
        (ConnectSawOnion <=> GetSeesOnion(req.host))

\* the first upstream request of the fetcher that was called has the
\* method of the client's request
SameMethod ==
    /\ tr.php # <<>> => tr.php[1].method = req.method
    /\ tr.direct > 0 => tr.first.method = req.method

\* C32: the upstream request of _fetch_via_php, and the first one of
\* _fetch_direct, has the client's method, for GET, POST and HEAD and
\* whether or not the request has a body
UpstreamMethodKept == req.method \in {"GET", "POST", "HEAD"} => SameMethod

\* the same, for the requests other than a POST without a body
UpstreamMethodKept_Body ==
    (req.method \in {"GET", "HEAD"} \/ (req.method = "POST" /\ req.clen > 0))
        => SameMethod

----------------------------------------------------------------------------
(* _fetch_direct, the redirect loop: the claim, under SpecRedirect *)

\* the response is a redirect whose target is a plain-HTTP URL: an absolute
\* http URL, or a path on the server that was asked
PlainHttpRedirect(resp) ==
    /\ resp.status \in {301, 302, 303, 307, 308}
    /\ resp.headers.loc # <<>>
    /\ resp.headers.loc[1].scheme \in {"http", ""}

\* the upstream has answered the request of _fetch_direct with tr'.resp[1]
DirectAnswered == pc = "direct" /\ tr' # tr /\ ~tr'.raised

\* _fetch_direct makes another upstream request
FollowedStep == pc' = "direct" /\ tr'.direct = tr.direct + 1

\* _fetch_direct returns the response and the client gets it
ReturnedStep ==
    /\ pc' = "idle"
    /\ tr'.direct = tr.direct
    /\ sent'.kind = "proxied"
    /\ sent'.code = tr'.resp[1].status
    /\ sent'.body = IF req.method = "HEAD" THEN <<>> ELSE tr'.resp[1].body

\* C31: _fetch_direct makes a further upstream request only for a response
\* whose status is 301, 302, 303, 307 or 308 and whose Location is a
\* plain-HTTP URL; for a Location of any other scheme, and for no Location,
\* no further request is made and the response is returned
RedirectOnlyPlainHttp ==
    [][ DirectAnswered =>
          /\ FollowedStep => PlainHttpRedirect(tr'.resp[1])
          /\ ~PlainHttpRedirect(tr'.resp[1]) => ReturnedStep ]_vars

\* the same, for the responses whose Location is not an ftp URL
RedirectOnlyPlainHttp_NoFtp ==
    [][ (DirectAnswered
         /\ (tr'.resp[1].headers.loc # <<>>
               => tr'.resp[1].headers.loc[1].scheme # "ftp")) =>
          /\ FollowedStep => PlainHttpRedirect(tr'.resp[1])
          /\ ~PlainHttpRedirect(tr'.resp[1]) => ReturnedStep ]_vars

----------------------------------------------------------------------------
(* _cache_ttl: the claim, under SpecTtl *)

\* the kind of document a content type names
TypeClass(ct) ==
    CASE ct \in {"image/png", "image/svg+xml"} -> "image"
      [] ct \in {"font/woff2", "application/font-woff"} -> "font"
      [] ct \in {CtJs, "text/javascript"} -> "script"
      [] ct = "text/css" -> "stylesheet"
      [] ct = "application/wasm" -> "wasm"
      [] ct = "application/svg+xml" -> "svg"
      [] ct \in {CtHtml, CtHtmlUpper} -> "html"
      [] ct = "application/json" -> "json"
      [] OTHER -> "other"

\* the heuristic's table
TableTtl(class) ==
    CASE class \in {"image", "font", "script", "stylesheet", "wasm"} -> 600
      [] class = "svg" -> 600
      [] class = "html" -> 30
      [] class = "json" -> 60
      [] OTHER -> 120

\* the numbers N of the header's max-age=N directives
MaxAges(cc) ==
    {cc[i].num[1] : i \in {j \in 1..Len(cc) :
                              cc[j].name = "max-age" /\ cc[j].num # <<>>}}

\* C25: _cache_ttl gives 0 for a cache-control with no-store or private,
\* otherwise min(N, 3600) for one with max-age=N, otherwise the content
\* type's row of the table; it never gives more than 3600
TtlHeuristic ==
    ret # <<>> =>
        /\ ret[1] <= 3600
        /\ IF CcHas(args[2], "no-store") \/ CcHas(args[2], "private")
           THEN ret[1] = 0
           ELSE IF MaxAges(args[2]) # {}
           THEN \E n \in MaxAges(args[2]) :
                    ret[1] = IF n < 3600 THEN n ELSE 3600
           ELSE ret[1] = TableTtl(TypeClass(args[1]))

\* a max-age over the cap came with an html content type
TtlHeuristic_Witness ==
    /\ ret = <<3600>>
    /\ args[1] = CtHtmlUpper
    /\ MaxAges(args[2]) = {3601}

----------------------------------------------------------------------------
(* backup_manager.py: the claim, under SpecBackup *)

\* C24: whenever create_backup or restore_from_backup has returned, normally
\* or by raising at any statement, the staging directory it made has been
\* removed (and it is there while the call runs)
NoStagingLeft ==
    /\ (bk.pc = "idle" /\ bk.calls > 0) =>
          /\ bk.staging = "removed"
          /\ bk.files = {}
          /\ bk.ended = IF bk.at = "" THEN "returned" ELSE "raised"
    /\ bk.pc # "idle" => bk.staging = "present"

\* restore_from_backup has raised at the database import, after a call that
\* returned
NoStagingLeft_Witness ==
    /\ bk.fn = "restore"
    /\ bk.pc = "idle"
    /\ bk.calls = 2
    /\ bk.ended = "raised"
    /\ bk.at = "mariadb_import"
    /\ bk.staging = "removed"

----------------------------------------------------------------------------
(* do_CONNECT: the claims, under SpecTunnel *)

IsPrefix(s, t) == Len(s) <= Len(t) /\ s = SubSeq(t, 1, Len(s))

\* C16: when the TCP connect to a CONNECT target fails the client gets a 502,
\* no success status line, no byte is relayed and the handler returns; the
\* success status line is sent only after the connect succeeded
ConnectFailure ==
    /\ (req.method = "CONNECT" /\ tr.tcp # <<>> /\ ~tr.tcp[1].ok) =>
          /\ sent = ErrorSent(502)
          /\ tunnel = NoTunnel
          /\ pc = "idle"
    /\ sent.kind = "established" =>
          /\ tr.tcp # <<>>
          /\ tr.tcp[1].ok
          /\ tunnel.remote # "none"

\* the connect to a clearnet target has failed
ConnectFailure_Witness ==
    /\ req.method = "CONNECT"
    /\ req.host = Clear
    /\ Len(tr.tcp) = 1
    /\ ~tr.tcp[1].ok
    /\ sent = ErrorSent(502)

\* C17: a relaying tunnel ends at the end of either stream, on an I/O error
\* and on the idle timeout; however it ends, both sockets are closed and
\* nothing more is written as an HTTP response
TunnelEnds ==
    [][ /\ pc' = "relay" => (tunnel'.remote = "open" /\ tunnel'.client = "open"
                             /\ tunnel'.cause = "")
        /\ (pc = "relay" /\ pc' # "relay") =>
              /\ tunnel'.cause \in Causes \cup {"sendall"}
              /\ tunnel'.remote = "closed"
              /\ tunnel'.client = "closed"
              /\ sent' = sent
              /\ pc' = "idle"
      ]_vars

\* a tunnel that has relayed a chunk has ended on the idle timeout
TunnelEnds_Witness ==
    /\ tunnel.cause = "timeout"
    /\ tunnel.remote = "closed"
    /\ tunnel.client = "closed"
    /\ tunnel.to_remote # <<>>
    /\ sent.kind = "established"

\* C18: every chunk read from one socket is written, as it is, to the other,
\* in the order read: what has been written in a direction is what has been
\* read in it (less the one chunk of a sendall that raised, which ends the
\* tunnel)
RelayVerbatim ==
    /\ IsPrefix(tunnel.to_remote, tunnel.from_client)
    /\ IsPrefix(tunnel.to_client, tunnel.from_remote)
    /\ tunnel.cause # "sendall" =>
          /\ tunnel.to_remote = tunnel.from_client
          /\ tunnel.to_client = tunnel.from_remote
    /\ tunnel.cause = "sendall" =>
          Len(tunnel.from_client) + Len(tunnel.from_remote)
              = Len(tunnel.to_remote) + Len(tunnel.to_client) + 1

\* two different chunks have been relayed in each direction
RelayVerbatim_Witness ==
    /\ pc = "relay"
    /\ tunnel.to_remote = <<"x", "y">>
    /\ tunnel.to_client = <<"y", "x">>

----------------------------------------------------------------------------
(* Fetch failures: the claim, under Spec *)

\* C19: when the fetcher raises the client gets a 502, the fetch is not
\* retried (an onion request has made one request to the forwarder) and
\* nothing is put in the cache for the request
FetchErrorIs502 ==
    [][ (tr'.raised /\ ~tr.raised) =>
            /\ pc \in {"php", "direct"}
            /\ pc' = "idle"
            /\ sent' = ErrorSent(502)
            /\ tr'.puts = 0
            /\ tr'.php = tr.php
            /\ tr'.direct = tr.direct
            /\ OnionHost(req.host) => (Len(tr'.php) = 1 /\ tr'.direct = 0)
            /\ <<cache, size, hits, misses>>' = <<cache, size, hits, misses>>
      ]_vars

\* the forwarder has failed on the second request, a GET for an onion host,
\* with an entry in the cache
FetchErrorIs502_Witness ==
    /\ tr.raised
    /\ req.method = "GET"
    /\ OnionHost(req.host)
    /\ Len(tr.php) = 1
    /\ sent = ErrorSent(502)
    /\ served = 2
    /\ cache # <<>>

----------------------------------------------------------------------------
(* Errors and the other threads: the claim, under SpecPar *)

\* the entries of c that have not expired at time t, in c's order
LiveAt(c, t) == SelectSeq(c, LAMBDA e : ~Expired(t, e))

\* C20: a request that ends in an error (a malformed request, a fetch that
\* failed, a tunnel whose connect failed) inserts, replaces and evicts no
\* live cache entry, and keeps no other thread's request from completing:
\* a step changes the live entries only when it ends a request with a
\* fetched or a cached response, the step that ends a request in an error
\* leaves the cache as it was, a step of one thread leaves the handlers of
\* the others as they were, and every thread's request comes to its end
ErrorsAreLocal ==
    /\ [][ /\ LiveAt(cache', now) # LiveAt(cache, now) =>
                (served' = served + 1 /\ sent'.kind \in {"proxied", "cached"})
           /\ (served' = served + 1 /\ sent'.kind = "error") =>
                <<cache, size>>' = <<cache, size>>
           /\ running' = running => parked' = parked
         ]_vars
    /\ \A w \in Threads :
          (HandlerOf(w).pc # "idle") ~> (HandlerOf(w).pc = "idle")

\* a request has just ended in a 502 for a fetch that failed, with a live
\* entry in the cache, while another thread's request waits for its fetcher
ErrorsAreLocal_Witness ==
    /\ pc = "idle"
    /\ sent = ErrorSent(502)
    /\ tr.raised
    /\ LiveAt(cache, now) # <<>>
    /\ \E w \in Threads \ {running} : parked[w].pc \in {"php", "direct"}

----------------------------------------------------------------------------
(* ProxyCache under threads: the claim, under SpecConc *)

\* C9: with workers calling get, put and stats concurrently, every call
\* takes effect atomically and no update is lost or corrupted.  At most one
\* worker is inside the lock; whenever the lock is free the entry map, the
\* byte total and the hit/miss counters are those that the completed calls
\* give when applied one at a time in the order in which they left the lock
\* (ref), the byte total is the sum of the resident bodies, and every call
\* has returned what it returns in that sequential order
Linearizable ==
    /\ Cardinality(lock) <= 1
    /\ lock = {} =>
         /\ Self = ref
         /\ size = SumLen(cache)
    /\ \A w \in Workers : wk[w].pc = "idle" => wk[w].ret = wk[w].want

\* two gets have missed, the second begun while the first was inside the
\* lock, and both misses are counted
Linearizable_Witness ==
    /\ lock = {}
    /\ \A w \in Workers : wk[w].pc = "idle" /\ wk[w].op = "get"
    /\ \E w \in Workers : wk[w].conc
    /\ misses = 2

----------------------------------------------------------------------------
(* The target URL: the claim, under SpecUrl *)

\* the port a request is for: 80 when the target names none
PortOf(r) == IF r.port = NoPort THEN 80 ELSE r.port

\* the normalized URL of the claim: the host in lower case, the port left
\* out when it is 80 or absent and kept otherwise
NormalUrl(r) ==
    <<"http://">> \o ToLower(r.host)
    \o (IF PortOf(r) = 80 THEN <<>> ELSE <<":", PortStr(r.port)>>)
    \o <<r.path>>

\* the two requests are for the same host (in any letter case), port and
\* path
SameTarget(r1, r2) ==
    /\ ToLower(r1.host) = ToLower(r2.host)
    /\ PortOf(r1) = PortOf(r2)
    /\ r1.path = r2.path

Normalized ==
    /\ ret[1] = NormalUrl(args[1])
    /\ ret[2] = NormalUrl(args[2])
    /\ ret[1] = ret[2] <=> SameTarget(args[1], args[2])

\* C35: the target URL, which is the cache key, has the host in lower case
\* and the port left out when it is 80 or absent, any other port being
\* kept; two requests that differ only in the letter case of the host or in
\* an explicit :80 have the same key, and requests to different ports never
\* have the same key
UrlNormalized == ret # <<>> => Normalized

\* the same, for the requests whose port is not 0
UrlNormalized_NoPort0 ==
    (ret # <<>> /\ args[1].port # 0 /\ args[2].port # 0) => Normalized

----------------------------------------------------------------------------
(* The lock and the network: the claim, under SpecLock *)

\* the positions of a worker that are network I/O
InNetwork == {"fetch", "write", "relay"}
\* the positions between `with self._lock:` and the end of the block
OutsideLock == InNetwork \cup {"idle", "put_268", "get_lock", "put_lock",
                                "stats_lock"}
\* the positions outside get, put and stats
OutsideCalls == InNetwork \cup {"idle"}

\* C34: the lock is held only inside get, put and stats and never by a
\* worker that is in network I/O; so, with a worker stalled in a fetch or a
\* tunnel for as long as it likes, every call of another worker on the
\* cache returns and its cache hit is answered
LockNeverAcrossIo ==
    /\ [](\A w \in Workers : wk[w].pc \in OutsideLock => w \notin lock)
    /\ \A w \in Workers :
          /\ (wk[w].pc \notin OutsideCalls) ~> (wk[w].pc \in OutsideCalls)
          /\ (wk[w].pc = "idle" /\ wk[w].op = "get" /\ CacheHit(wk[w].ret))
                ~> (wk[w] = NoLocals)

\* a worker is in a tunnel or in a fetch, and the other has had a cache
\* hit in the meantime and is writing the response
LockNeverAcrossIo_Witness ==
    \E w, v \in Workers :
       /\ wk[w].pc \in {"relay", "fetch"}
       /\ wk[v].pc = "write"
       /\ wk[v].op = "get"
       /\ CacheHit(wk[v].ret)
       /\ lock = {}

----------------------------------------------------------------------------
(* cellar_poller: the claims, under SpecCellar *)

\* a pass of cellar_poller over the entry
PollStep == cel'.polls = cel.polls + 1

FlagMatchesHeld == ~cel.entry.takeover_active => ~cel.held
\* what the code does do: a pass that finds the instance healthy while a
\* takeover is active runs the release, and clears the flag whatever the
\* release returned
ReleaseAsked ==
    [][(PollStep /\ cel.entry.takeover_active /\ cel'.ran.hc = "ok") =>
         /\ cel'.ran.release # ""
         /\ ~cel'.entry.takeover_active]_vars

----------------------------------------------------------------------------
(* The rewriters: the claims, under SpecRewrite *)

\* C15: _rewrite_onion_links with a fixed onion host is idempotent: the
\* second pass over a document leaves it as the first pass made it
RewriteIdempotent ==
    passes = 2 => doc = prev

====
